---- MODULE Spec2Model ----
(***************************************************************************)
(* Verification model of the kupferbootstrap build core:                   *)
(*   - the dependency solver     (packages/build.py)                       *)
(*   - the chroot mount tracker  (chroot/abstract.py)                      *)
(*   - the SRCINFO cache         (packages/srcinfo_cache.py)               *)
(*   - the artifact freshness    (packages/build.py, distro/repo.py)       *)
(* Each component has its own specification over the shared variables; a   *)
(* component's specification leaves the other components' state untouched. *)
(***************************************************************************)
EXTENDS Integers, Sequences, FiniteSets, TLC

(***************************************************************************)
(* Bounds                                                                  *)
(***************************************************************************)
NRecipes == 3
NAliasNames == 1
MaxEdges == 3
MaxAliases == 1
MaxForeign == 1
MaxHandlers == 2
MaxBusy == 1
MaxVersion == 2
MaxContent == 2
MaxFiles == 1
MaxEntries == 1
MaxBuildEdges == 2
MaxPrebuilt == 1
MaxSubpackages == 1
MaxSeeds == 1
MaxVerLen == 3
NDagRecipes == 4
NDirs == 3
MaxRepos == 2
NConfPaths == 2
MaxProfileValue == 1

(***************************************************************************)
(* Program constants                                                       *)
(***************************************************************************)
MaxDepth == 100
RepeatLimit == 10

VARIABLES
    \* ---- dependency solver (generate_dependency_chain) ----
    depends,        \* recipe -> set of dependency names (Pkgbuild.depends keys)
    provides,       \* recipe -> set of provided alias names
    replaces,       \* recipe -> set of replaced alias names
    to_build,       \* the seed recipes
    visited,        \* set of visited recipes
    visited_names,  \* names of the visited recipes
    dep_levels,     \* sequence of sets of recipes; dep_levels[i+1] is code level i
    level,          \* index of the level being scanned (0-based as in the code)
    repeat_count,
    last_level,     \* _last_level: {} for None, {S} for the set S
    solver_pc,      \* "start" | "loop" | "done" | "error_depth" | "error_cycle"
    solver_passes,  \* number of completed passes of the while loop (observer)
    plan            \* the returned level list (deps first)

solverVars == <<depends, provides, replaces, to_build, visited, visited_names,
                dep_levels, level, repeat_count, last_level, solver_pc,
                solver_passes, plan>>

VARIABLES
    \* ---- chroot mount tracker (Chroot) ----
    active_mounts,    \* Chroot.active_mounts: list of pseudo-absolute paths
    active,           \* Chroot.active
    initialized,      \* Chroot.initialized
    kernel_mounts,    \* the set of paths below the chroot root the kernel has mounted
    foreign_mounts,   \* mounted paths that were not mounted by this Chroot object
    atexit_handlers,  \* number of registered atexit deactivate handlers
    proc_state,       \* "running" | "exiting" | "exited"
    last_call         \* observer: what the most recent Chroot call did

chrootVars == <<active_mounts, active, initialized, kernel_mounts, foreign_mounts,
                atexit_handlers, proc_state, last_call>>

VARIABLES
    \* ---- SRCINFO cache (SrcinfoMetaFile) of one recipe directory ----
    pkgbuild,     \* text of the PKGBUILD file, as its list of lines
    srcinfo,      \* the SRCINFO file: {} when missing, {text} otherwise
    meta_file,    \* the srcinfo_meta.json file
    metadata,     \* the SrcinfoMetaFile object the process holds
    si_call       \* observer: what the most recent cache operation did

srcinfoVars == <<pkgbuild, srcinfo, meta_file, metadata, si_call>>

VARIABLES
    \* ---- artifact freshness (check_package_version_built) of one recipe ----
    recipe,        \* the recipe: its version and whether its arches are ['any']
    repo_files,    \* <<arch, ext>> -> content of the recipe's package file with
                   \* that compression in that arch's channel directory, 0 if absent
    repo_db,       \* arch -> the entry of the recipe in that directory's DB
    repo_tables,   \* arch -> the LocalRepo object of the process: scanned, entry
    pacman_cache,  \* the <<arch, ext>> with a copy in the pacman cache
    pkgbuild_dir,  \* the package file makepkg left in the recipe's directory:
                   \* {} or {<<ext, content>>}
    fr_call        \* observer: what the most recent freshness check did

freshVars == <<recipe, repo_files, repo_db, repo_tables, pacman_cache, pkgbuild_dir,
               fr_call>>

VARIABLES
    \* ---- build orchestrator (build_packages) ----
    pkgbase,       \* recipe -> the recipe standing for its Pkgbase
    base_arches,   \* base -> Pkgbase.arches
    prebuilt,      \* the recipes check_package_version_built reports as built
    build_levels,  \* the levels get_unbuilt_package_levels returned
    need_build,    \* the recipes the two loops have not yet iterated over,
                   \* level by level
    built_for,     \* base -> Pkgbase._built_for
    makepkg_runs,  \* the recipes makepkg was invoked for, in order
    inserted,      \* the bases whose package files add_package_to_repo inserted
    bp_pc,         \* "start" | "building" | "returned" | "raised"
    repo_scanned,  \* Repo.scanned of the local repo the packages go to
    repo_packages, \* the bases of this run that the repo's package table lists
    bp_call        \* observer: what the most recent loop iteration did

buildVars == <<pkgbase, base_arches, prebuilt, build_levels, need_build,
               built_for, makepkg_runs, inserted, bp_pc, repo_scanned, repo_packages,
               bp_call>>

VARIABLES
    \* ---- build strategy router (build_package) ----
    build_args,   \* the arguments and configuration of one build_package call
    build_setup   \* observer: how that call set up its makepkg run

routerVars == <<build_args, build_setup>>

VARIABLES
    \* ---- package version comparison (compare_package_versions) ----
    ver_a, ver_b, ver_c,  \* three version strings, as their lists of characters
    ver_call              \* observer: the results of comparing them

versionVars == <<ver_a, ver_b, ver_c, ver_call>>

VARIABLES
    \* ---- qemu-user enabling (build_enable_qemu_binfmt) ----
    qemu_enabled,       \* _qemu_enabled: arch -> bool
    binfmt_registered,  \* the arches whose qemu handler the kernel lists
    qemu_pkgs,          \* the qemu and binfmt packages of the host: "none",
                        \* "built" (in the cross channel) or "installed"
    qemu_call,          \* observer: what the most recent call did
    setup_pc,           \* setup_build_chroot: "idle", "qemu", "chroot", "done"
                        \* or "raised"
    setup_arch,         \* its arch argument
    setup_qemu_done,    \* whether its build_enable_qemu_binfmt call returned
    chroot_steps        \* the methods it has called on the chroot of the arch

qemuVars == <<qemu_enabled, binfmt_registered, qemu_pkgs, qemu_call, setup_pc,
              setup_arch, setup_qemu_done, chroot_steps>>

VARIABLES
    \* ---- recipe discovery (discover_pkgbuilds) ----
    pkgbuild_dirs,      \* recipe directory -> what its PKGBUILD parses to: "ok",
                        \* "no_mode", "bad_mode" or "version_mismatch"
    pkgbuilds_paths,    \* _pkgbuilds_paths: the directories with a parsed list
    pkgbuilds_cache,    \* _pkgbuilds_cache: the recipes held, named by directory
    pkgbuilds_scanned,  \* _pkgbuilds_scanned
    disc_pc,            \* a parallel discovery: "idle" | "workers" (Parallel(...) is running)
    disc_lazy,          \* the lazy argument of the parallel discovery under way
    worker_pc,          \* directory -> its worker: "none" | "queued" | "done" | "failed"
    disc_call           \* observer: what the most recent discovery did

discoverVars == <<pkgbuild_dirs, pkgbuilds_paths, pkgbuilds_cache, pkgbuilds_scanned,
                  disc_pc, disc_lazy, worker_pc, disc_call>>

VARIABLES
    \* ---- pacman configuration (Distro.get_pacman_conf) ----
    distro_repos,  \* Distro.repos: the names of its channels, in dict order
    extra_repos,   \* the extra_repos argument: names in dict order
    conf_text      \* observer: the sections of the text returned, <<>> before

confVars == <<distro_repos, extra_repos, conf_text>>

VARIABLES
    current_uid,      \* os.getuid() of the calling process
    exec_call         \* the last command composed: its inputs and the argv handed to subprocess

execVars == <<current_uid, exec_call>>

VARIABLES
    fs_file,          \* the file at the path write_file is given, and whether its parent is a directory
    wf_call           \* the last write_file call: its inputs, the file before, the steps it took

fileVars == <<fs_file, wf_call>>

VARIABLES
    conf_disk,          \* what each config file path holds on disk
    file_state,         \* ConfigStateHolder.file_state: load_finished, exception
    file_conf,          \* ConfigStateHolder.file: 0 for the defaults, else the path it was parsed from
    runtime_config_file, \* ConfigStateHolder.runtime.config_file, 0 for None
    profile_cache,      \* ConfigStateHolder._profile_cache
    load_call           \* the last call on the holder, and whether the last load attempt parsed its file

configVars == <<conf_disk, file_state, file_conf, runtime_config_file, profile_cache,
                load_call>>

VARIABLES
    \* ---- reverse dependencies (get_dependants) ----
    pkg_arches,     \* recipe -> its arches
    gd_arch,        \* the arch argument
    gd_seeds,       \* the packages argument of the outermost call
    gd_packages,    \* the packages argument of the innermost call
    gd_found,       \* the union of to_add over the calls made so far
    gd_pc           \* "idle", "call" (a call is about to run) or "done"

dependantsVars == <<pkg_arches, gd_arch, gd_seeds, gd_packages, gd_found, gd_pc>>

VARIABLES
    \* ---- profile resolution (ConfigStateHolder.get_profile) ----
    prof_file,      \* config.file: other stands for the sections besides profiles,
                    \* current for profiles.current ({} when unset), profs for the
                    \* profile subsections, name -> sparse profile
    prof_cache,     \* _profile_cache: none for None, map for the dict
    prof_call       \* observer: what the most recent call did

profileVars == <<prof_file, prof_cache, prof_call>>

vars == <<solverVars, chrootVars, srcinfoVars, freshVars, buildVars, routerVars,
          versionVars, qemuVars, discoverVars, confVars, execVars, fileVars,
          configVars, dependantsVars, profileVars>>
nonSolverVars == <<chrootVars, srcinfoVars, freshVars, buildVars, routerVars,
                   versionVars, qemuVars, discoverVars, confVars, execVars, fileVars,
                   configVars, dependantsVars, profileVars>>
nonChrootVars == <<solverVars, srcinfoVars, freshVars, buildVars, routerVars,
                   versionVars, qemuVars, discoverVars, confVars, execVars, fileVars,
                   configVars, dependantsVars, profileVars>>
nonSrcinfoVars == <<solverVars, chrootVars, freshVars, buildVars, routerVars,
                    versionVars, qemuVars, discoverVars, confVars, execVars, fileVars,
                    configVars, dependantsVars, profileVars>>
nonFreshVars == <<solverVars, chrootVars, srcinfoVars, buildVars, routerVars,
                  versionVars, qemuVars, discoverVars, confVars, execVars, fileVars,
                  configVars, dependantsVars, profileVars>>
nonBuildVars == <<solverVars, chrootVars, srcinfoVars, freshVars, routerVars,
                  versionVars, qemuVars, discoverVars, confVars, execVars, fileVars,
                  configVars, dependantsVars, profileVars>>
nonRouterVars == <<solverVars, chrootVars, srcinfoVars, freshVars, buildVars,
                   versionVars, qemuVars, discoverVars, confVars, execVars, fileVars,
                   configVars, dependantsVars, profileVars>>
nonVersionVars == <<solverVars, chrootVars, srcinfoVars, freshVars, buildVars,
                    routerVars, qemuVars, discoverVars, confVars, execVars, fileVars,
                    configVars, dependantsVars, profileVars>>
nonQemuVars == <<solverVars, chrootVars, srcinfoVars, freshVars, buildVars, routerVars,
                 versionVars, discoverVars, confVars, execVars, fileVars, configVars,
                 dependantsVars, profileVars>>
nonDiscoverVars == <<solverVars, chrootVars, srcinfoVars, freshVars, buildVars,
                     routerVars, versionVars, qemuVars, confVars, execVars, fileVars,
                     configVars, dependantsVars, profileVars>>
nonConfVars == <<solverVars, chrootVars, srcinfoVars, freshVars, buildVars, routerVars,
                 versionVars, qemuVars, discoverVars, execVars, fileVars, configVars,
                 dependantsVars, profileVars>>
nonExecVars == <<solverVars, chrootVars, srcinfoVars, freshVars, buildVars, routerVars,
                 versionVars, qemuVars, discoverVars, confVars, fileVars, configVars,
                 dependantsVars, profileVars>>
nonFileVars == <<solverVars, chrootVars, srcinfoVars, freshVars, buildVars, routerVars,
                 versionVars, qemuVars, discoverVars, confVars, execVars, configVars,
                 dependantsVars, profileVars>>
nonConfigVars == <<solverVars, chrootVars, srcinfoVars, freshVars, buildVars,
                   routerVars, versionVars, qemuVars, discoverVars, confVars, execVars,
                   fileVars, dependantsVars, profileVars>>
nonDependantsVars == <<solverVars, chrootVars, srcinfoVars, freshVars, buildVars,
                       routerVars, versionVars, qemuVars, discoverVars, confVars,
                       execVars, fileVars, configVars, profileVars>>
nonProfileVars == <<solverVars, chrootVars, srcinfoVars, freshVars, buildVars,
                    routerVars, versionVars, qemuVars, discoverVars, confVars,
                    execVars, fileVars, configVars, dependantsVars>>

ARCHES == <<"x86_64", "aarch64">>
ArchSet == {ARCHES[i] : i \in 1..Len(ARCHES)}

\* the compression extensions in the order check_package_version_built probes
ProbeExts == <<"xz", "zst">>
ExtSet == {ProbeExts[i] : i \in 1..Len(ProbeExts)}

\* qemu_call: op the operation, arch and lazy its arguments, builds, installs
\* and writes how often it ran build_packages_by_paths, pacman -U and the
\* write to binfmt_misc/register, raised whether it raised
NoQemuCall == [op |-> "none", arch |-> "", lazy |-> FALSE, builds |-> 0,
               installs |-> 0, writes |-> 0, raised |-> FALSE]
QemuIdle ==
    /\ qemu_enabled = [a \in ArchSet |-> FALSE]
    /\ binfmt_registered = {}
    /\ qemu_pkgs = "none"
    /\ qemu_call = NoQemuCall
    /\ setup_pc = "idle"
    /\ setup_arch = ""
    /\ setup_qemu_done = FALSE
    /\ chroot_steps = <<>>

\* disc_call: op the operation, parallel and lazy its arguments, raised
\* whether it raised, packages the index it returned
NoDiscCall == [op |-> "none", parallel |-> FALSE, lazy |-> FALSE, raised |-> FALSE,
               packages |-> {}]
DiscoverIdle ==
    /\ pkgbuild_dirs = <<>>
    /\ pkgbuilds_paths = {}
    /\ pkgbuilds_cache = {}
    /\ pkgbuilds_scanned = FALSE
    /\ disc_pc = "idle"
    /\ disc_lazy = FALSE
    /\ worker_pc = <<>>
    /\ disc_call = NoDiscCall

ConfIdle ==
    /\ distro_repos = <<>>
    /\ extra_repos = <<>>
    /\ conf_text = <<>>

\* exec_call before any command was composed
NoExecCall == [op |-> "none", switch_user |-> "", cmd |-> <<>>, argv |-> <<>>]

ExecIdle ==
    /\ current_uid = 0
    /\ exec_call = NoExecCall

\* wf_call before any file was written
NoWfCall == [op |-> "none", content |-> "", mode |-> "", user |-> "", group |-> "",
             before |-> [parent_ok |-> TRUE, exists |-> FALSE, content |-> "", owner |-> "", group |-> "", mode |-> ""],
             steps |-> <<>>, raised |-> FALSE]

FileIdle ==
    /\ fs_file = NoWfCall.before
    /\ wf_call = NoWfCall

\* ConfigLoadState()
NoLoadState == [load_finished |-> FALSE, exception |-> "none"]

\* load_call before any call on the holder
NoLoadCall == [op |-> "none", attempted |-> FALSE, parsed |-> FALSE, result |-> FALSE, raised |-> FALSE]

ConfigIdle ==
    /\ conf_disk = <<>>
    /\ file_state = NoLoadState
    /\ file_conf = 0
    /\ runtime_config_file = 0
    /\ profile_cache = "empty"
    /\ load_call = NoLoadCall

DependantsIdle ==
    /\ pkg_arches = <<>>
    /\ gd_arch = ""
    /\ gd_seeds = {}
    /\ gd_packages = {}
    /\ gd_found = {}
    /\ gd_pc = "idle"

\* prof_call: op the operation, name the profile asked for, result the
\* resolved profile returned ({} when none), raised whether it raised
NoProfCall == [op |-> "none", name |-> "", result |-> {}, raised |-> FALSE]

\* CONFIG_DEFAULTS: one profile "default" holding the default value of every key
ProfileDefaults == [other |-> 0, current |-> {"default"},
                    profs |-> [n \in {"default"} |-> [arch |-> {0}]]]

\* ConfigStateHolder.__init__: the defaults, an empty cache
ProfileIdle ==
    /\ prof_file = ProfileDefaults
    /\ prof_cache = [none |-> FALSE, map |-> [n \in {} |-> {}]]
    /\ prof_call = NoProfCall

\* ver_call before anything was compared
NoVerCall == [called |-> FALSE]
VersionIdle ==
    /\ ver_a = <<>>
    /\ ver_b = <<>>
    /\ ver_c = <<>>
    /\ ver_call = NoVerCall

\* build_setup before build_package was called
NoSetup == [called |-> FALSE]
RouterIdle ==
    /\ build_args = <<>>
    /\ build_setup = NoSetup

\* bp_call: op the step, package the recipe it was about, did what the
\* iteration did with it ("skipped" | "built" | "failed"), install_failed and
\* makepkg_failed whether the dependency installation and makepkg were run
\* and exited non-zero, build_raised whether build_package raised
NoBpCall == [op |-> "none", package |-> 0, did |-> "", install_failed |-> FALSE,
             makepkg_failed |-> FALSE, build_raised |-> FALSE]
BuildIdle ==
    /\ pkgbase = <<>>
    /\ base_arches = <<>>
    /\ prebuilt = {}
    /\ build_levels = <<>>
    /\ need_build = <<>>
    /\ built_for = <<>>
    /\ makepkg_runs = <<>>
    /\ inserted = {}
    /\ bp_pc = "start"
    /\ repo_scanned = FALSE
    /\ repo_packages = {}
    /\ bp_call = NoBpCall

\* no entry for the recipe in a DB or a package table
NoEntry == [version |-> 0, tag |-> "", ext |-> "", sum |-> 0]

\* fr_call: op the operation, arch and try_download its arguments, result
\* what it returned, copies, repo_adds and removed the files it copied, the
\* repo-add commands it ran and the cache files it removed, raised whether
\* it raised, demoted whether the package table listed the recipe at the
\* expected version with a file that is missing or has another checksum
NoFrCall == [op |-> "none", arch |-> "", try_download |-> FALSE, result |-> FALSE,
             copies |-> 0, repo_adds |-> 0, removed |-> 0, raised |-> FALSE,
             demoted |-> FALSE]

FreshIdle ==
    /\ recipe = [version |-> 1, any |-> FALSE]
    /\ repo_files = [f \in ArchSet \X ExtSet |-> 0]
    /\ repo_db = [a \in ArchSet |-> NoEntry]
    /\ repo_tables = [a \in ArchSet |-> [scanned |-> FALSE, entry |-> NoEntry]]
    /\ pacman_cache = {}
    /\ pkgbuild_dir = {}
    /\ fr_call = NoFrCall

\* a JSON key: absent, null (has, v = {}) or a value x (has, v = {x})
Absent == [has |-> FALSE, v |-> {}]
Null == [has |-> TRUE, v |-> {}]
Value(x) == [has |-> TRUE, v |-> {x}]

\* no srcinfo_meta.json on disk / no object in memory; st is "missing",
\* "corrupt" (not parsable as JSON) or "ok"
NoMeta == [st |-> "missing", sum_pkgbuild |-> Absent, sum_srcinfo |-> Absent,
           build_mode |-> Absent, build_nodeps |-> Absent]

\* si_call: op the operation, force_refresh and write its flags, valid
\* whether the entry on disk was readable and valid when it was called,
\* spawned the number of makepkg runs, wrote the files written, lines the
\* returned lines ({} when none), raised whether it raised
NoSiCall == [op |-> "none", force_refresh |-> FALSE, write |-> FALSE, valid |-> FALSE,
             spawned |-> 0, wrote |-> {}, lines |-> {}, raised |-> FALSE]

SrcinfoIdle ==
    /\ pkgbuild = <<>>
    /\ srcinfo = {}
    /\ meta_file = NoMeta
    /\ metadata = NoMeta
    /\ si_call = NoSiCall

\* the state after Chroot.__init__ in a process that has mounted nothing
\* last_call: op is the method called, path its pseudo-absolute destination,
\* fail_if_mounted, strict and ignore_rootfs its flags, raised whether it
\* raised, issued the number of mount commands it ran, ulog the umount
\* commands a deactivate ran, in order, reset the flag of an initialize and
\* cleared the mounted paths whose content its reset deleted
NoCall == [op |-> "none", path |-> "", fail_if_mounted |-> FALSE, strict |-> FALSE,
           ignore_rootfs |-> FALSE, raised |-> FALSE, issued |-> 0, ulog |-> <<>>,
           reset |-> FALSE, cleared |-> {}]

ChrootIdle ==
    /\ active_mounts = <<>>
    /\ active = FALSE
    /\ initialized = FALSE
    /\ kernel_mounts = {}
    /\ foreign_mounts = {}
    /\ atexit_handlers = 0
    /\ proc_state = "running"
    /\ last_call = NoCall

(***************************************************************************)
(* Generic helpers                                                         *)
(***************************************************************************)
\* the elements of set S in the relative order given by the sequence ord
RECURSIVE InOrder(_, _)
InOrder(ord, S) ==
    IF ord = <<>> THEN <<>>
    ELSE IF Head(ord) \in S THEN <<Head(ord)>> \o InOrder(Tail(ord), S)
         ELSE InOrder(Tail(ord), S)

RECURSIVE SumOver(_, _)
SumOver(f, S) ==
    IF S = {} THEN 0
    ELSE LET x == CHOOSE y \in S : TRUE IN f[x] + SumOver(f, S \ {x})

(***************************************************************************)
(* Recipes and the name index                                              *)
(***************************************************************************)
\* the recipes of the tree are those discover_pkgbuilds parsed
Recipes == DOMAIN depends
\* recipe r is called r; the alias names follow the recipe names
AliasNames == (NRecipes + 1)..(NRecipes + NAliasNames)
Names == Recipes \cup AliasNames
\* The iteration orders of the seed collection, of the depends dicts and of
\* the level sets are not fixed by the code (insertion and hash order); the
\* model explores two opposite orders, so that of any two names each one is
\* met before the other in one of them.
NameOrders ==
    {[i \in 1..Cardinality(Names) |-> i],
     [i \in 1..Cardinality(Names) |-> Cardinality(Names) + 1 - i]}

\* Pkgbuild.names(): own name, provides and replaces
names(r) == {r} \cup provides[r] \cup replaces[r]

\* discover_pkgbuilds: packages[name] = package for the own name and every
\* replaces alias, recipes processed in order, later entries override
IndexKeys == Recipes \cup UNION {replaces[r] : r \in Recipes}
package_repo ==
    [n \in IndexKeys |->
        CHOOSE r \in Recipes :
            /\ n \in ({r} \cup replaces[r])
            /\ \A q \in Recipes : n \in ({q} \cup replaces[q]) => q <= r]

\* visit(): mark a recipe and all its names as visited
visit(r, st) == [vis |-> st.vis \cup {r}, vn |-> st.vn \cup names(r), lvl |-> st.lvl]

(***************************************************************************)
(* Dependency solver: generate_dependency_chain                            *)
(***************************************************************************)
\* get_recursive_dependencies: depth-first walk over the not yet visited
\* dependencies that have an index entry; each one found is visited and
\* added to level 0.  ord is the iteration order of the depends dicts.
RECURSIVE get_recursive_dependencies(_, _, _)
get_recursive_dependencies(deps, ord, st) ==
    IF deps = <<>> THEN st
    ELSE LET d == Head(deps) IN
        IF d \in st.vn THEN get_recursive_dependencies(Tail(deps), ord, st)
        ELSE IF d \in IndexKeys
        THEN LET q == package_repo[d]
                 st1 == [visit(q, st) EXCEPT !.lvl = @ \cup {q}]
                 st2 == get_recursive_dependencies(InOrder(ord, depends[q]), ord, st1)
             IN get_recursive_dependencies(Tail(deps), ord, st2)
        ELSE get_recursive_dependencies(Tail(deps), ord, st)

\* "init level 0": every requested recipe and its recursive dependencies
RECURSIVE seed_level0(_, _, _)
seed_level0(pkgs, ord, st) ==
    IF pkgs = <<>> THEN st
    ELSE LET p == Head(pkgs)
             st1 == [visit(p, st) EXCEPT !.lvl = @ \cup {p}]
             st2 == get_recursive_dependencies(InOrder(ord, depends[p]), ord, st1)
         IN seed_level0(Tail(pkgs), ord, st2)

\* a move decided by the recipe's own name alone
is_moved_by_own_name(pkg, level_copy) ==
    \E other \in level_copy \ {pkg} : pkg \in depends[other]

\* "move pkg to level+1 if something else depends on it": decided against
\* the snapshot level_copy of the level taken at the start of the pass
is_moved(pkg, level_copy) ==
    \E other \in level_copy \ {pkg} : \E dep_name \in depends[other] : dep_name \in names(pkg)

\* second loop of a pass: add the not yet visited indexed dependencies of
\* pkg to the current level
RECURSIVE add_unvisited(_, _)
add_unvisited(deps, st) ==
    IF deps = <<>> THEN st
    ELSE LET d == Head(deps) IN
        IF d \in st.vn THEN add_unvisited(Tail(deps), st)
        ELSE IF d \in IndexKeys
        THEN LET q == package_repo[d]
             IN add_unvisited(Tail(deps),
                    [visit(q, st) EXCEPT !.lvl = @ \cup {q}, !.mod = TRUE])
        ELSE add_unvisited(Tail(deps), st)

\* the body of "for pkg in level_copy"
RECURSIVE scan_level(_, _, _, _)
scan_level(pkgs, ord, level_copy, st) ==
    IF pkgs = <<>> THEN st
    ELSE LET pkg == Head(pkgs)
             st1 == IF pkg \in st.lvl /\ is_moved(pkg, level_copy)
                    THEN [st EXCEPT !.lvl = @ \ {pkg}, !.nxt = @ \cup {pkg}, !.mod = TRUE]
                    ELSE st
             st2 == add_unvisited(InOrder(ord, depends[pkg]), st1)
         IN scan_level(Tail(pkgs), ord, level_copy, st2)

RECURSIVE reverse_pruned(_)
\* the levels without the empty ones, in the order they were filled
pruned_unreversed(levels) ==
    SelectSeq(levels, LAMBDA lvl : lvl # {})

\* "reverse level list into buildorder (deps first!), prune empty levels"
reverse_pruned(levels) ==
    IF levels = <<>> THEN <<>>
    ELSE reverse_pruned(Tail(levels)) \o (IF Head(levels) # {} THEN <<Head(levels)>> ELSE <<>>)

\* lines 97-137: construct the local state and fill level 0
SolverSeed ==
    /\ solver_pc = "start"
    /\ \E ord \in NameOrders :
        LET st == seed_level0(InOrder(ord, to_build), ord, [vis |-> {}, vn |-> {}, lvl |-> {}])
        IN /\ visited' = st.vis
           /\ visited_names' = st.vn
           /\ dep_levels' = <<st.lvl, {}>>
    /\ level' = 0
    /\ repeat_count' = 0
    /\ last_level' = {}
    /\ solver_pc' = "loop"
    /\ UNCHANGED <<depends, provides, replaces, to_build, solver_passes, plan>>
    /\ UNCHANGED nonSolverVars

\* lines 148-195: one iteration of "while dep_levels[level]"
SolverPass ==
    /\ solver_pc = "loop"
    /\ dep_levels[level + 1] # {}
    /\ IF level > MaxDepth
       THEN /\ solver_pc' = "error_depth"
            /\ UNCHANGED <<visited, visited_names, dep_levels, level, repeat_count,
                           last_level, solver_passes>>
       ELSE \E ord \in NameOrders :
            LET level_copy == dep_levels[level + 1]
                st == scan_level(InOrder(ord, level_copy), ord, level_copy,
                                 [vis |-> visited, vn |-> visited_names,
                                  lvl |-> dep_levels[level + 1],
                                  nxt |-> dep_levels[level + 2], mod |-> FALSE])
                rc == IF last_level = {st.lvl} THEN repeat_count + 1 ELSE 0
                lv == [dep_levels EXCEPT ![level + 1] = st.lvl, ![level + 2] = st.nxt]
            IN /\ visited' = st.vis
               /\ visited_names' = st.vn
               /\ repeat_count' = rc
               /\ solver_passes' = solver_passes + 1
               /\ IF rc > RepeatLimit
                  THEN /\ solver_pc' = "error_cycle"
                       /\ dep_levels' = lv
                       /\ UNCHANGED <<level, last_level>>
                  ELSE /\ last_level' = {st.lvl}
                       /\ solver_pc' = "loop"
                       /\ IF ~st.mod
                          THEN /\ level' = level + 1
                               /\ dep_levels' = Append(lv, {})
                          ELSE /\ level' = level
                               /\ dep_levels' = lv
    /\ UNCHANGED <<depends, provides, replaces, to_build, plan>>
    /\ UNCHANGED nonSolverVars

\* a return that is taken only once a level has been completed
SolverReturn_after_first_level ==
    /\ solver_pc = "loop"
    /\ dep_levels[level + 1] = {}
    /\ level > 0
    /\ plan' = <<>>
    /\ solver_pc' = "done"
    /\ UNCHANGED <<depends, provides, replaces, to_build, visited, visited_names,
                   dep_levels, level, repeat_count, last_level, solver_passes>>
    /\ UNCHANGED nonSolverVars

\* lines 196-197: the loop condition fails, return the plan
SolverReturn ==
    /\ solver_pc = "loop"
    /\ dep_levels[level + 1] = {}
    /\ plan' = reverse_pruned(dep_levels)
    /\ solver_pc' = "done"
    /\ UNCHANGED <<depends, provides, replaces, to_build, visited, visited_names,
                   dep_levels, level, repeat_count, last_level, solver_passes>>
    /\ UNCHANGED nonSolverVars

\* the inputs: a recipe tree with at most MaxEdges dependency edges and
\* MaxAliases provides/replaces aliases, and a non-empty seed set
SolverIdle ==
    /\ visited = {}
    /\ visited_names = {}
    /\ dep_levels = <<{}, {}>>
    /\ level = 0
    /\ repeat_count = 0
    /\ last_level = {}
    /\ solver_pc = "start"
    /\ solver_passes = 0
    /\ plan = <<>>

InitSolver ==
    /\ depends \in [1..NRecipes -> SUBSET (1..NRecipes \cup AliasNames)]
    /\ SumOver([r \in Recipes |-> Cardinality(depends[r])], Recipes) <= MaxEdges
    /\ provides \in [Recipes -> SUBSET AliasNames]
    /\ replaces \in [Recipes -> SUBSET AliasNames]
    /\ SumOver([r \in Recipes |-> Cardinality(provides[r]) + Cardinality(replaces[r])], Recipes) <= MaxAliases
    /\ to_build \in (SUBSET Recipes) \ {{}}
    /\ SolverIdle
    /\ ProfileIdle
    /\ DependantsIdle
    /\ ConfigIdle
    /\ FileIdle
    /\ ExecIdle
    /\ ConfIdle
    /\ DiscoverIdle
    /\ QemuIdle
    /\ VersionIdle
    /\ RouterIdle
    /\ BuildIdle
    /\ ChrootIdle
    /\ SrcinfoIdle
    /\ FreshIdle

NextSolver == SolverSeed \/ SolverPass \/ SolverReturn

SpecSolver == InitSolver /\ [][NextSolver]_vars

\* the inputs of a call seen to its end: recipes that depend on each other's
\* own names in any way, cycles and self-dependencies included, and at most
\* MaxSeeds seeds
InitSolverFair ==
    /\ depends \in [1..NRecipes -> SUBSET (1..NRecipes)]
    /\ SumOver([r \in Recipes |-> Cardinality(depends[r])], Recipes) <= MaxEdges
    /\ provides = [r \in Recipes |-> {}]
    /\ replaces = [r \in Recipes |-> {}]
    /\ to_build \in {S \in SUBSET Recipes : S # {} /\ Cardinality(S) <= MaxSeeds}
    /\ SolverIdle
    /\ ProfileIdle
    /\ DependantsIdle
    /\ ConfigIdle
    /\ FileIdle
    /\ ExecIdle
    /\ ConfIdle
    /\ DiscoverIdle
    /\ QemuIdle
    /\ VersionIdle
    /\ RouterIdle
    /\ BuildIdle
    /\ ChrootIdle
    /\ SrcinfoIdle
    /\ FreshIdle

\* the call runs on one thread, which is never suspended for good: a step that
\* can be taken is taken
SpecSolverFair == InitSolverFair /\ [][NextSolver]_vars /\ WF_vars(NextSolver)

\* acyclic recipe trees without aliases: NDagRecipes recipes, numbered so
\* that a recipe depends only on recipes with a higher number
DagSlots == {e \in (1..NDagRecipes) \X (1..NDagRecipes) : e[1] < e[2]}

InitAcyclic ==
    /\ \E E \in SUBSET DagSlots :
          depends = [r \in 1..NDagRecipes |-> {d \in 1..NDagRecipes : <<r, d>> \in E}]
    /\ provides = [r \in Recipes |-> {}]
    /\ replaces = [r \in Recipes |-> {}]
    /\ to_build \in (SUBSET Recipes) \ {{}}
    /\ SolverIdle
    /\ ProfileIdle
    /\ DependantsIdle
    /\ ConfigIdle
    /\ FileIdle
    /\ ExecIdle
    /\ ConfIdle
    /\ DiscoverIdle
    /\ QemuIdle
    /\ VersionIdle
    /\ RouterIdle
    /\ BuildIdle
    /\ ChrootIdle
    /\ SrcinfoIdle
    /\ FreshIdle

SpecAcyclic == InitAcyclic /\ [][NextSolver]_vars

\* recipe trees in which a recipe may provide the name of a recipe of the
\* tree other than itself (as foo-git provides foo): at most MaxEdges dependency edges between
\* the recipes and MaxAliases provides entries
RecipePairs == (1..NRecipes) \X (1..NRecipes)
EdgeChoices == {E \in SUBSET RecipePairs : Cardinality(E) <= MaxEdges}
ProvideChoices ==
    {P \in SUBSET {e \in RecipePairs : e[1] # e[2]} : Cardinality(P) <= MaxAliases}

InitProviders ==
    /\ \E E \in EdgeChoices :
          depends = [r \in 1..NRecipes |-> {d \in 1..NRecipes : <<r, d>> \in E}]
    /\ \E P \in ProvideChoices :
          provides = [r \in 1..NRecipes |-> {n \in 1..NRecipes : <<r, n>> \in P}]
    /\ replaces = [r \in Recipes |-> {}]
    /\ to_build \in (SUBSET Recipes) \ {{}}
    /\ SolverIdle
    /\ ProfileIdle
    /\ DependantsIdle
    /\ ConfigIdle
    /\ FileIdle
    /\ ExecIdle
    /\ ConfIdle
    /\ DiscoverIdle
    /\ QemuIdle
    /\ VersionIdle
    /\ RouterIdle
    /\ BuildIdle
    /\ ChrootIdle
    /\ SrcinfoIdle
    /\ FreshIdle

SpecProviders == InitProviders /\ [][NextSolver]_vars

(***************************************************************************)
(* Properties of the dependency solver                                     *)
(***************************************************************************)
\* r locally depends on q: some dependency name of r is in q's name-set
local_dep(r, q) == \E d \in depends[r] : d \in names(q)

\* the recipes reachable from r over one or more local dependency edges
RECURSIVE reach_from(_, _)
reach_from(frontier, seen) ==
    LET nxt == {q \in Recipes : \E r \in frontier : local_dep(r, q)} \ seen
    IN IF nxt = {} THEN seen ELSE reach_from(nxt, seen \cup nxt)

on_cycle(r) == r \in reach_from({r}, {})

plan_recipes == UNION {plan[i] : i \in DOMAIN plan}

\* C1: in a returned plan every local dependency of a recipe is exposed by a
\* recipe of a strictly earlier level, no level is empty and no recipe is in
\* two levels.
C1_PlanStrictlyOrdered ==
    solver_pc = "done" =>
        /\ \A i \in DOMAIN plan : plan[i] # {}
        /\ \A i, j \in DOMAIN plan : i # j => plan[i] \cap plan[j] = {}
        /\ \A i \in DOMAIN plan : \A r \in plan[i] : \A d \in depends[r] :
              (\E q \in Recipes : d \in names(q)) =>
                  \E j \in 1..(i - 1) : \E q \in plan[j] : d \in names(q)

\* C2: when the recipes handed to the solver contain a dependency cycle the
\* solver returns no plan, it ends in the dependency-cycle error after at
\* most RepeatLimit unchanged passes.
C2_CycleRaises ==
    /\ (solver_pc = "done" => ~\E r \in visited : on_cycle(r))
    /\ (solver_pc = "error_cycle" => repeat_count <= RepeatLimit + 1)

\* C31: a returned plan holds exactly the seeds and every recipe reachable
\* from a seed over local dependencies (a dependency name in some recipe's
\* name-set, provides included), and no other recipe.
C31_PlanIsLocalClosure ==
    solver_pc = "done" => plan_recipes = to_build \cup reach_from(to_build, {})

\* C34: the name index has a key for every name of every recipe's name-set
\* (own name, provides, replaces), and a name that several recipes claim
\* maps to the one processed last.
C34_IndexHoldsEveryName ==
    \A r \in Recipes : \A n \in names(r) :
        /\ n \in DOMAIN package_repo
        /\ \A q \in Recipes : n \in names(q) => q <= package_repo[n]

\* C36: every call of generate_dependency_chain ends: it returns a plan or
\* raises one of its two guard errors.
C36_SolverTerminates ==
    <>(solver_pc \in {"done", "error_depth", "error_cycle"})

\* a call on an index with a dependency cycle returned after several passes
C36_Witness ==
    /\ solver_pc = "done"
    /\ solver_passes >= 2
    /\ \E r \in plan_recipes : on_cycle(r)

\* the recipes of the plan that depend on r
dependants(r) == {u \in plan_recipes : local_dep(u, r)}

\* the length of the longest chain of dependants leading to r
RECURSIVE chain_length(_)
chain_length(r) ==
    IF dependants(r) = {} THEN 0
    ELSE LET lens == {chain_length(u) : u \in dependants(r)}
         IN 1 + CHOOSE m \in lens : \A n \in lens : n <= m

\* the diamond a->b, a->c, b->d, c->d with a = 1, b = 2, c = 3, d = 4
diamond == [r \in 1..4 |-> IF r = 1 THEN {2, 3} ELSE IF r = 4 THEN {} ELSE {4}]

\* C19: for an acyclic recipe tree every recipe of the returned plan sits
\* exactly as many levels before the last level as the longest chain of
\* dependants leading to it is long; the diamond seeded with a yields
\* [{d}, {b, c}, {a}].
C19_AsLateAsDependantsAllow ==
    solver_pc = "done" =>
        /\ \A i \in DOMAIN plan : \A r \in plan[i] : i = Len(plan) - chain_length(r)
        /\ (depends = diamond /\ to_build = {1}) => plan = <<{4}, {2, 3}, {1}>>

\* the diamond was solved
C19_Witness ==
    /\ solver_pc = "done"
    /\ depends = diamond
    /\ to_build = {1}
    /\ plan = <<{4}, {2, 3}, {1}>>

\* the same placement for acyclic trees with aliases
C19_WithAliases ==
    (/\ solver_pc = "done"
     /\ ~\E r \in Recipes : on_cycle(r)) =>
        \A i \in DOMAIN plan : \A r \in plan[i] : i = Len(plan) - chain_length(r)

\* C20 as stated: in a returned plan, for every recipe u of the plan and
\* every dependency name of u that is an index key, the recipe v the index
\* holds for that name is in the plan, at u's level or an earlier one.
C20_DependencyNotLater ==
    solver_pc = "done" =>
        \A i \in DOMAIN plan : \A u \in plan[i] : \A d \in depends[u] \cap IndexKeys :
            \E j \in 1..i : package_repo[d] \in plan[j]

\* C20 (amended): in a returned plan, for every recipe u of the plan and
\* every dependency name of u that is an index key, some recipe that has the
\* name in its name-set is in the plan, and every recipe of the plan that has
\* the name in its name-set is at u's level or an earlier one.
C20_ProviderNotLater ==
    solver_pc = "done" =>
        \A i \in DOMAIN plan : \A u \in plan[i] : \A d \in depends[u] \cap IndexKeys :
            /\ \E j \in 1..i : \E w \in plan[j] : d \in names(w)
            /\ \A j \in DOMAIN plan : \A w \in plan[j] : d \in names(w) => j <= i

\* a plan in which a provider stands in for the recipe the index holds, at a
\* level before its dependant's
C20_Witness ==
    /\ solver_pc = "done"
    /\ \E i \in DOMAIN plan : \E u \in plan[i] : \E d \in depends[u] \cap IndexKeys :
          /\ package_repo[d] \notin plan_recipes
          /\ \E j \in 1..(i - 1) : \E w \in plan[j] : d \in names(w)

\* sanity: restricted to acyclic inputs whose local dependencies are index
\* keys, the plan is strictly ordered
PlanOrderedWhenAcyclic ==
    (/\ solver_pc = "done"
     /\ ~\E r \in Recipes : on_cycle(r)
     /\ \A r \in Recipes : \A d \in depends[r] :
            (\E q \in Recipes : d \in names(q)) => d \in IndexKeys /\ d \in names(package_repo[d]))
    => C1_PlanStrictlyOrdered

\* the cycle guard is never triggered
NeverCycleError == solver_pc # "error_cycle" /\ repeat_count <= 1

(***************************************************************************)
(* Chroot mount tracker: chroot/abstract.py, utils.py                      *)
(***************************************************************************)
\* the mount points used below one chroot root, in ascending string order
\* (the order list.sort() uses)
PathOrder == <<"/", "/dev", "/proc", "/var/cache/pacman/pkg">>
Paths == {PathOrder[i] : i \in DOMAIN PathOrder}
rank(p) == CHOOSE i \in DOMAIN PathOrder : PathOrder[i] = p

\* the same destinations spelled relative to the chroot root
RelativeSpellings == {"", "dev", "proc", "var/cache/pacman/pkg"}
Spellings == Paths \cup RelativeSpellings

\* helpers.make_abs_path: '/' + path.lstrip('/')
make_abs_path(path) ==
    CASE path = "" -> "/"
      [] path = "dev" -> "/dev"
      [] path = "proc" -> "/proc"
      [] path = "var/cache/pacman/pkg" -> "/var/cache/pacman/pkg"
      [] OTHER -> path

\* Chroot.get_path: the leading '/' is stripped and the rest joined to the
\* chroot root; the kernel mount point is named here by its path below the root
get_path(path) == make_abs_path(path)

\* helpers.BASIC_MOUNTS, in dict order
BASIC_MOUNTS == <<"/proc", "/dev">>

Range(seq) == {seq[i] : i \in DOMAIN seq}

\* list.remove(x): drop the first occurrence
RECURSIVE list_remove(_, _)
list_remove(seq, x) ==
    IF seq = <<>> THEN <<>>
    ELSE IF Head(seq) = x THEN Tail(seq)
         ELSE <<Head(seq)>> \o list_remove(Tail(seq), x)

\* list.sort(reverse=True) on path strings
RECURSIVE insert_desc(_, _)
insert_desc(seq, x) ==
    IF seq = <<>> THEN <<x>>
    ELSE IF rank(x) >= rank(Head(seq)) THEN <<x>> \o seq
         ELSE <<Head(seq)>> \o insert_desc(Tail(seq), x)

\* a sort that leaves the list in the order of acquisition
sort_keep_order(seq) == seq

RECURSIVE sort_reverse(_)
sort_reverse(seq) ==
    IF seq = <<>> THEN <<>> ELSE insert_desc(sort_reverse(Tail(seq)), Head(seq))

RECURSIVE filter_seq(_, _)
filter_seq(seq, keep) ==
    IF seq = <<>> THEN <<>>
    ELSE (IF Head(seq) \in keep THEN <<Head(seq)>> ELSE <<>>) \o filter_seq(Tail(seq), keep)

\* utils.check_findmnt: the path is a target in the mount table
check_findmnt(kt, p) == p \in kt

\* utils.umount: the command succeeds only on a mounted path that nothing
\* keeps busy (open files, a mount stacked below or above it)
umount_succeeds(kt, p, busy) == p \in kt /\ p \notin busy

\* Chroot.mount that lists a destination again when it skips the mount
chroot_mount_relisting(s, relative_destination, fail_if_mounted, strict_cache_consistency, mfail) ==
    LET pseudo_absolute == make_abs_path(relative_destination)
        absolute_destination == get_path(relative_destination)
    IN IF s.raised THEN s
       ELSE IF check_findmnt(s.kt, absolute_destination)
       THEN IF pseudo_absolute \notin Range(s.am) THEN [s EXCEPT !.raised = TRUE]
            ELSE IF fail_if_mounted THEN [s EXCEPT !.raised = TRUE]
            ELSE [s EXCEPT !.am = Append(@, pseudo_absolute)]
       ELSE IF pseudo_absolute \in Range(s.am) /\ strict_cache_consistency
            THEN [s EXCEPT !.raised = TRUE]
            ELSE IF absolute_destination \in mfail
                 THEN [s EXCEPT !.issued = @ + 1, !.raised = TRUE]
                 ELSE [s EXCEPT !.issued = @ + 1,
                                !.kt = @ \cup {absolute_destination},
                                !.am = Append(@, pseudo_absolute),
                                !.h = @ + 1]

\* Chroot.mount with the leak test made subject to fail_if_mounted
chroot_mount_unchecked(s, relative_destination, fail_if_mounted, strict_cache_consistency, mfail) ==
    LET pseudo_absolute == make_abs_path(relative_destination)
        absolute_destination == get_path(relative_destination)
    IN IF s.raised THEN s
       ELSE IF check_findmnt(s.kt, absolute_destination)
       THEN IF fail_if_mounted THEN [s EXCEPT !.raised = TRUE] ELSE s
       ELSE IF pseudo_absolute \in Range(s.am) /\ strict_cache_consistency
            THEN [s EXCEPT !.raised = TRUE]
            ELSE IF absolute_destination \in mfail
                 THEN [s EXCEPT !.issued = @ + 1, !.raised = TRUE]
                 ELSE [s EXCEPT !.issued = @ + 1,
                                !.kt = @ \cup {absolute_destination},
                                !.am = Append(@, pseudo_absolute),
                                !.h = @ + 1]

\* Chroot.mount that always treats a listed but unmounted path as fatal
chroot_mount_strict(s, relative_destination, fail_if_mounted, strict_cache_consistency, mfail) ==
    LET pseudo_absolute == make_abs_path(relative_destination)
        absolute_destination == get_path(relative_destination)
    IN IF s.raised THEN s
       ELSE IF check_findmnt(s.kt, absolute_destination)
       THEN IF pseudo_absolute \notin Range(s.am) THEN [s EXCEPT !.raised = TRUE]
            ELSE IF fail_if_mounted THEN [s EXCEPT !.raised = TRUE]
            ELSE s
       ELSE IF pseudo_absolute \in Range(s.am)
            THEN [s EXCEPT !.raised = TRUE]
            ELSE IF absolute_destination \in mfail
                 THEN [s EXCEPT !.issued = @ + 1, !.raised = TRUE]
                 ELSE [s EXCEPT !.issued = @ + 1,
                                !.kt = @ \cup {absolute_destination},
                                !.am = Append(@, pseudo_absolute),
                                !.h = @ + 1]

\* Chroot.mount; s is the chroot and kernel state, mfail the destinations
\* on which the mount command fails
chroot_mount(s, relative_destination, fail_if_mounted, strict_cache_consistency, mfail) ==
    LET pseudo_absolute == make_abs_path(relative_destination)
        absolute_destination == get_path(relative_destination)
    IN IF s.raised THEN s
       ELSE IF check_findmnt(s.kt, absolute_destination)
       THEN IF pseudo_absolute \notin Range(s.am) THEN [s EXCEPT !.raised = TRUE]
            ELSE IF fail_if_mounted THEN [s EXCEPT !.raised = TRUE]
            ELSE s
       ELSE IF pseudo_absolute \in Range(s.am) /\ strict_cache_consistency
            THEN [s EXCEPT !.raised = TRUE]
            ELSE IF absolute_destination \in mfail
                 THEN [s EXCEPT !.issued = @ + 1, !.raised = TRUE]
                 ELSE [s EXCEPT !.issued = @ + 1,
                                !.kt = @ \cup {absolute_destination},
                                !.am = Append(@, pseudo_absolute),
                                !.h = @ + 1]

\* Chroot.umount
chroot_umount(s, relative_path, busy) ==
    LET path == get_path(relative_path)
        ok == umount_succeeds(s.kt, path, busy)
        s1 == [s EXCEPT !.ulog = Append(@, path),
                        !.kt = IF ok THEN @ \ {path} ELSE @,
                        !.fm = IF ok THEN @ \ {path} ELSE @]
    IN IF s.raised THEN s
       ELSE IF ok /\ make_abs_path(relative_path) \in Range(s.am)
            THEN IF relative_path \in Range(s.am)
                 THEN [s1 EXCEPT !.am = list_remove(@, relative_path)]
                 ELSE [s1 EXCEPT !.raised = TRUE]     \* ValueError of list.remove
            ELSE s1

RECURSIVE umount_each(_, _, _)
umount_each(s, mounts, busy) ==
    IF mounts = <<>> THEN s
    ELSE umount_each(IF Head(mounts) = "/proc" THEN s ELSE chroot_umount(s, Head(mounts), busy),
                     Tail(mounts), busy)

RECURSIVE map_abs(_)
map_abs(seq) ==
    IF seq = <<>> THEN <<>> ELSE <<make_abs_path(Head(seq))>> \o map_abs(Tail(seq))

\* Chroot.umount_many
umount_many(s, relative_paths, busy) ==
    LET mounts == sort_reverse(map_abs(relative_paths))
        s1 == umount_each(s, mounts, busy)
    IN IF "/proc" \in Range(mounts) THEN chroot_umount(s1, "/proc", busy) ELSE s1

\* the list deactivate hands to umount_many
deactivate_selection(am, ignore_rootfs) ==
    filter_seq(am, IF ignore_rootfs THEN Paths \ {"/", "/boot"} ELSE Paths)

\* Chroot.deactivate
deactivate(s, fail_if_inactive, ignore_rootfs, busy) ==
    IF s.raised THEN s
    ELSE IF ~s.act /\ fail_if_inactive THEN [s EXCEPT !.raised = TRUE]
    ELSE LET s1 == umount_many(s, deactivate_selection(s.am, ignore_rootfs), busy)
         IN IF s1.raised THEN s1 ELSE [s1 EXCEPT !.act = FALSE]

\* Chroot.deactivate_core
deactivate_core(s, busy) ==
    LET s1 == umount_many(s, BASIC_MOUNTS, busy)
    IN IF s1.raised THEN s1 ELSE [s1 EXCEPT !.act = FALSE]

RECURSIVE mount_each(_, _, _, _)
mount_each(s, dsts, fail_if_mounted, mfail) ==
    IF dsts = <<>> THEN s
    ELSE mount_each(chroot_mount(s, Head(dsts), fail_if_mounted, FALSE, mfail),
                    Tail(dsts), fail_if_mounted, mfail)

\* a reset that leaves alone whatever is still mounted
create_rootfs_sparing(s, reset, mfail, pacstrap_ok) ==
    LET s1 == chroot_mount(s, "var/cache/pacman/pkg", FALSE, FALSE, mfail)
    IN IF s1.raised THEN s1
       ELSE IF ~pacstrap_ok THEN [s1 EXCEPT !.raised = TRUE]
       ELSE [s1 EXCEPT !.init = TRUE]

\* BaseChroot.create_rootfs: with reset rmtree runs over every directory of
\* the chroot, and with it over whatever is mounted below the root; then
\* mount the pacman cache, pacstrap
create_rootfs(s, reset, mfail, pacstrap_ok) ==
    LET s0 == IF reset /\ ~s.raised THEN [s EXCEPT !.cleared = s.kt \ {"/"}] ELSE s
        s1 == chroot_mount(s0, "var/cache/pacman/pkg", FALSE, FALSE, mfail)
    IN IF s1.raised THEN s1
       ELSE IF ~pacstrap_ok THEN [s1 EXCEPT !.raised = TRUE]
       ELSE [s1 EXCEPT !.init = TRUE]

\* Chroot.initialize
initialize(s, reset, fail_if_initialized, mfail, busy, pacstrap_ok) ==
    IF s.raised THEN s
    ELSE IF s.init /\ ~reset
    THEN IF fail_if_initialized THEN [s EXCEPT !.raised = TRUE] ELSE s
    ELSE create_rootfs(deactivate(s, FALSE, TRUE, busy), reset, mfail, pacstrap_ok)

\* Chroot.activate
activate(s, fail_if_active, mfail, busy, pacstrap_ok) ==
    IF s.act /\ fail_if_active THEN [s EXCEPT !.raised = TRUE]
    ELSE LET s1 == IF ~s.init THEN initialize(s, FALSE, FALSE, mfail, busy, pacstrap_ok) ELSE s
             s2 == mount_each(s1, BASIC_MOUNTS, fail_if_active, mfail)
         IN IF s2.raised THEN s2 ELSE [s2 EXCEPT !.act = TRUE]

\* the chroot object and the kernel as the operators above see them
chroot_state ==
    [am |-> active_mounts, kt |-> kernel_mounts, fm |-> foreign_mounts,
     h |-> atexit_handlers, act |-> active, init |-> initialized,
     raised |-> FALSE, issued |-> 0, ulog |-> <<>>, cleared |-> {}]

\* store the outcome of a call; o describes the call for the observer
Commit(s, o) ==
    /\ s.h <= MaxHandlers
    /\ active_mounts' = s.am
    /\ kernel_mounts' = s.kt
    /\ foreign_mounts' = s.fm
    /\ atexit_handlers' = s.h
    /\ active' = s.act
    /\ initialized' = s.init
    /\ last_call' = [o EXCEPT !.raised = s.raised, !.issued = s.issued,
                              !.cleared = s.cleared,
                              !.ulog = IF o.op \in {"deactivate", "atexit"} THEN s.ulog ELSE <<>>]

\* a call stops at the first mount command that fails: at most one
\* destination needs to fail in one call
FirstFailure == {{}} \cup {{p} : p \in Paths}

\* the mounted paths whose umount command fails during one call
BusySets(mounted) == {B \in SUBSET mounted : Cardinality(B) <= MaxBusy}

ChrootMount ==
    /\ proc_state = "running"
    /\ \E relative_destination \in Spellings, fail_if_mounted \in BOOLEAN,
          strict_cache_consistency \in BOOLEAN :
       \* the mount command only runs on a destination that is not mounted
       \E cmd_ok \in (IF check_findmnt(kernel_mounts, get_path(relative_destination))
                      THEN {TRUE} ELSE BOOLEAN) :
        Commit(chroot_mount(chroot_state, relative_destination, fail_if_mounted,
                            strict_cache_consistency, IF cmd_ok THEN {} ELSE Paths),
               [NoCall EXCEPT !.op = "mount",
                              !.path = make_abs_path(relative_destination),
                              !.fail_if_mounted = fail_if_mounted,
                              !.strict = strict_cache_consistency])
    /\ UNCHANGED proc_state
    /\ UNCHANGED nonChrootVars

ChrootUmount ==
    /\ proc_state = "running"
    /\ \E relative_path \in Spellings, cmd_ok \in BOOLEAN :
        Commit(chroot_umount(chroot_state, relative_path, IF cmd_ok THEN {} ELSE Paths),
               [NoCall EXCEPT !.op = "umount", !.path = make_abs_path(relative_path)])
    /\ UNCHANGED proc_state
    /\ UNCHANGED nonChrootVars

ChrootUmountMany ==
    /\ proc_state = "running"
    /\ \E selection \in SUBSET Paths :
       \E busy \in BusySets(selection \cap kernel_mounts) :
        Commit(umount_many(chroot_state, filter_seq(PathOrder, selection), busy),
               [NoCall EXCEPT !.op = "umount_many"])
    /\ UNCHANGED proc_state
    /\ UNCHANGED nonChrootVars

ChrootActivate ==
    /\ proc_state = "running"
    /\ \E fail_if_active \in BOOLEAN, mfail \in FirstFailure,
          pacstrap_ok \in (IF initialized THEN {TRUE} ELSE BOOLEAN) :
       \E busy \in (IF initialized THEN {{}} ELSE BusySets(kernel_mounts)) :
        Commit(activate(chroot_state, fail_if_active, mfail, busy, pacstrap_ok),
               [NoCall EXCEPT !.op = "activate"])
    /\ UNCHANGED proc_state
    /\ UNCHANGED nonChrootVars

ChrootInitialize ==
    /\ proc_state = "running"
    /\ \E reset \in BOOLEAN, pacstrap_ok \in BOOLEAN, fail_if_initialized \in BOOLEAN,
          mfail \in {{}, {get_path("var/cache/pacman/pkg")}} :
       \E busy \in BusySets(kernel_mounts) :
        \* the arguments and outcomes that make a difference to the call
        /\ (initialized /\ ~reset) => (busy = {} /\ mfail = {} /\ pacstrap_ok)
        /\ ~(initialized /\ ~reset) => ~fail_if_initialized
        /\ mfail # {} => pacstrap_ok
        /\ Commit(initialize(chroot_state, reset, fail_if_initialized, mfail, busy,
                             pacstrap_ok),
                  [NoCall EXCEPT !.op = "initialize", !.reset = reset])
    /\ UNCHANGED proc_state
    /\ UNCHANGED nonChrootVars

ChrootDeactivateCore ==
    /\ proc_state = "running"
    /\ \E busy \in BusySets(kernel_mounts) :
        Commit(deactivate_core(chroot_state, busy),
               [NoCall EXCEPT !.op = "deactivate_core"])
    /\ UNCHANGED proc_state
    /\ UNCHANGED nonChrootVars

ChrootDeactivate ==
    /\ proc_state = "running"
    /\ \E fail_if_inactive \in BOOLEAN, ignore_rootfs \in BOOLEAN :
       \E busy \in BusySets(kernel_mounts) :
        Commit(deactivate(chroot_state, fail_if_inactive, ignore_rootfs, busy),
               [NoCall EXCEPT !.op = "deactivate", !.ignore_rootfs = ignore_rootfs])
    /\ UNCHANGED proc_state
    /\ UNCHANGED nonChrootVars

\* the interpreter leaves (normally or after an uncaught exception) and
\* starts running the atexit handlers
ProcessExit ==
    /\ proc_state = "running"
    /\ proc_state' = IF atexit_handlers = 0 THEN "exited" ELSE "exiting"
    /\ last_call' = [NoCall EXCEPT !.op = "exit"]
    /\ UNCHANGED <<active_mounts, active, initialized, kernel_mounts, foreign_mounts,
                   atexit_handlers>>
    /\ UNCHANGED nonChrootVars

\* one registered handler runs: self.deactivate() with its default arguments
AtexitDeactivate ==
    /\ proc_state = "exiting"
    /\ atexit_handlers > 0
    /\ \E busy \in BusySets(kernel_mounts) :
        LET s == deactivate(chroot_state, FALSE, FALSE, busy)
        IN Commit([s EXCEPT !.h = @ - 1],
                  [NoCall EXCEPT !.op = "atexit"])
    /\ proc_state' = IF atexit_handlers = 1 THEN "exited" ELSE "exiting"
    /\ UNCHANGED nonChrootVars

\* a fresh Chroot object; the chroot directory outlives processes, so mounts
\* of an earlier process may still be there
InitChroot ==
    /\ active_mounts = <<>>
    /\ active = FALSE
    /\ initialized \in BOOLEAN
    /\ kernel_mounts \in {K \in SUBSET Paths : Cardinality(K) <= MaxForeign}
    /\ foreign_mounts = kernel_mounts
    /\ atexit_handlers = 0
    /\ proc_state = "running"
    /\ last_call = NoCall
    /\ SrcinfoIdle
    /\ FreshIdle
    /\ SolverIdle
    /\ ProfileIdle
    /\ DependantsIdle
    /\ ConfigIdle
    /\ FileIdle
    /\ ExecIdle
    /\ ConfIdle
    /\ DiscoverIdle
    /\ QemuIdle
    /\ VersionIdle
    /\ RouterIdle
    /\ BuildIdle
    /\ depends = [r \in 1..NRecipes |-> {}]
    /\ provides = [r \in Recipes |-> {}]
    /\ replaces = [r \in Recipes |-> {}]
    /\ to_build = {}

NextChroot ==
    \/ ChrootMount
    \/ ChrootUmount
    \/ ChrootUmountMany
    \/ ChrootActivate
    \/ ChrootDeactivateCore
    \/ ChrootDeactivate
    \/ ProcessExit
    \/ AtexitDeactivate

SpecChroot == InitChroot /\ [][NextChroot]_vars

\* a chroot that is mounted into, activated and initialized again
NextChrootReset ==
    \/ ChrootMount
    \/ ChrootActivate
    \/ ChrootInitialize

SpecChrootReset == InitChroot /\ [][NextChrootReset]_vars

(***************************************************************************)
(* Properties of the chroot mount tracker                                  *)
(***************************************************************************)
own_mounts == kernel_mounts \ foreign_mounts

no_duplicates(seq) == \A i, j \in DOMAIN seq : i # j => seq[i] # seq[j]

occurrences(seq, x) == Cardinality({i \in DOMAIN seq : seq[i] = x})

\* C3: between calls active_mounts lists exactly the mounts this chroot
\* created that are still mounted, each once.
C3_ActiveMountsExact ==
    /\ Range(active_mounts) = own_mounts
    /\ no_duplicates(active_mounts)

\* C4: a mount call on a destination that is mounted but not listed in
\* active_mounts raises, whatever fail_if_mounted is, runs no mount command
\* and leaves active_mounts (and the kernel's mounts) as they were.
C4_LeakedMountRaises ==
    [][(/\ last_call'.op = "mount"
        /\ last_call'.path \in kernel_mounts
        /\ last_call'.path \notin Range(active_mounts))
       => (/\ last_call'.raised
           /\ last_call'.issued = 0
           /\ active_mounts' = active_mounts
           /\ kernel_mounts' = kernel_mounts)]_vars

C4_Witness ==
    /\ last_call.op = "mount"
    /\ ~last_call.fail_if_mounted
    /\ last_call.raised
    /\ last_call.issued = 0
    /\ last_call.path \in kernel_mounts
    /\ last_call.path \notin Range(active_mounts)

\* C5 as claimed: a mount call on a path that is listed in active_mounts but
\* not mounted raises instead of mounting again.
C5_StaleEntryRaises ==
    [][(/\ last_call'.op = "mount"
        /\ last_call'.path \notin kernel_mounts
        /\ last_call'.path \in Range(active_mounts))
       => (/\ last_call'.raised
           /\ last_call'.issued = 0
           /\ active_mounts' = active_mounts)]_vars

\* C5 as amended: such a call raises without a mount command only under
\* strict_cache_consistency; otherwise it runs the mount command and, when
\* the command succeeds, appends the path to active_mounts a second time.
C5_StaleEntryRaisesIfStrict ==
    [][(/\ last_call'.op = "mount"
        /\ last_call'.path \notin kernel_mounts
        /\ last_call'.path \in Range(active_mounts))
       => IF last_call'.strict
          THEN /\ last_call'.raised
               /\ last_call'.issued = 0
               /\ active_mounts' = active_mounts
               /\ kernel_mounts' = kernel_mounts
          ELSE /\ last_call'.issued = 1
               /\ IF last_call'.raised
                  THEN active_mounts' = active_mounts /\ kernel_mounts' = kernel_mounts
                  ELSE /\ active_mounts' = Append(active_mounts, last_call'.path)
                       /\ last_call'.path \in kernel_mounts']_vars

C5_Witness ==
    /\ last_call.op = "mount"
    /\ ~last_call.strict
    /\ ~last_call.raised
    /\ last_call.issued = 1
    /\ occurrences(active_mounts, last_call.path) = 2

\* C6: once the process has exited no mount created by the chroot is still
\* mounted and active_mounts is empty.
C6_ReleasedAtExit ==
    proc_state = "exited" => (active_mounts = <<>> /\ own_mounts = {})

\* C7 as claimed: deactivate unmounts the entries in the reverse of the
\* order of acquisition, /proc last.
C7_ReverseAcquisitionOrder ==
    [][(last_call'.op \in {"deactivate", "atexit"} /\ ~last_call'.raised)
       => LET sel == deactivate_selection(active_mounts, last_call'.ignore_rootfs)
              rev == [i \in 1..Len(sel) |-> sel[Len(sel) + 1 - i]]
          IN last_call'.ulog =
               filter_seq(rev, Paths \ {"/proc"})
                 \o (IF "/proc" \in Range(rev) THEN <<"/proc">> ELSE <<>>)]_vars

\* C7 as amended: deactivate runs the umount commands for the selected
\* entries of active_mounts in descending string order of their paths,
\* whatever the order of acquisition, and the one for /proc last.
C7_DescendingOrderProcLast ==
    [][(last_call'.op \in {"deactivate", "atexit"} /\ ~last_call'.raised)
       => LET ulog == last_call'.ulog
              sel == deactivate_selection(active_mounts, last_call'.ignore_rootfs)
          IN /\ Range(ulog) = Range(sel)
             /\ \A p \in Range(sel) \ {"/proc"} : occurrences(ulog, p) = occurrences(sel, p)
             /\ occurrences(ulog, "/proc") <= 1
             /\ \A i, j \in DOMAIN ulog :
                   i < j => /\ ulog[i] # "/proc"
                            /\ (ulog[j] = "/proc" \/ rank(ulog[i]) >= rank(ulog[j]))]_vars

\* a deactivate that unmounted two entries in an order that is not the
\* reverse of their acquisition, or /proc after a path sorting below it
C7_Witness ==
    /\ last_call.op = "deactivate"
    /\ ~last_call.raised
    /\ Len(last_call.ulog) = 2
    /\ last_call.ulog[2] = "/proc"
    /\ rank(last_call.ulog[1]) < rank("/proc")

\* C38: initialize(reset=True) never deletes the content of a path that was
\* tracked in active_mounts (other than '/' and '/boot') and is still mounted
\* when the directories of the chroot are removed.
C38_ResetSparesLiveMounts ==
    [][(last_call'.op = "initialize" /\ last_call'.reset)
       => \A p \in Range(active_mounts) \ {"/", "/boot"} :
              get_path(p) \notin last_call'.cleared]_vars

(***************************************************************************)
(* SRCINFO cache (packages/srcinfo_cache.py)                               *)
(* A text is the list of its lines, as str.split('\n') returns it; a line  *)
(* is the list of its characters.                                          *)
(***************************************************************************)
l_pkgver1 == <<"p", "k", "g", "v", "e", "r", "=", "1">>
l_pkgver2 == <<"p", "k", "g", "v", "e", "r", "=", "2">>
l_mode_host == <<"_", "m", "o", "d", "e", "=", "h", "o", "s", "t">>
l_mode_cross == <<"_", "m", "o", "d", "e", "=", "'", "c", "r", "o", "s", "s", "'">>
l_nodeps_true == <<"_", "n", "o", "d", "e", "p", "s", "=", "T", "r", "u", "e">>
l_nodeps_false == <<"_", "n", "o", "d", "e", "p", "s", "=", "\"", "f", "a", "l", "s", "e", "\"">>
l_broken == <<"a", "r", "c", "h", "=", "(">>

\* sample PKGBUILD files: without build fields, with _mode, with quoted
\* values, with a second version, with a repeated assignment, and one that
\* bash cannot parse
PkgbuildTexts ==
    { <<l_pkgver1>>,
      <<l_pkgver1, l_mode_host>>,
      <<l_pkgver1, l_mode_cross, l_nodeps_true>>,
      <<l_pkgver2, l_mode_host, l_nodeps_false>>,
      <<l_pkgver1, l_mode_cross, l_mode_host>>,
      <<l_broken>> }

\* str.strip(chars)
RECURSIVE strip(_, _)
strip(val, cs) ==
    IF val = <<>> THEN val
    ELSE IF Head(val) \in cs THEN strip(Tail(val), cs)
    ELSE IF val[Len(val)] \in cs THEN strip(SubSeq(val, 1, Len(val) - 1), cs)
    ELSE val

\* str.lower(), on the letters the sample texts use
lower(val) ==
    [i \in 1..Len(val) |->
        CASE val[i] = "T" -> "t"
          [] val[i] = "F" -> "f"
          [] OTHER -> val[i]]

\* line.split('=', 1) of a line that contains '='
split_eq(line) ==
    LET i == CHOOSE k \in 1..Len(line) :
                 line[k] = "=" /\ \A j \in 1..(k - 1) : line[j] # "="
    IN [key |-> SubSeq(line, 1, i - 1), val |-> SubSeq(line, i + 1, Len(line))]

\* the loop of refresh_build_fields over the lines of the PKGBUILD
RECURSIVE scan_build_fields(_, _)
scan_build_fields(lines, acc) ==
    IF lines = <<>> THEN acc
    ELSE LET line == Head(lines)
         IN IF line = <<>> \/ line[1] # "_" \/ "=" \notin {line[i] : i \in 1..Len(line)}
            THEN scan_build_fields(Tail(lines), acc)
            ELSE LET kv == split_eq(line)
                     val == strip(kv.val, {"\"", "'"})
                 IN IF kv.key = <<"_", "m", "o", "d", "e">>
                    THEN scan_build_fields(Tail(lines), [acc EXCEPT !.build_mode = Value(val)])
                    ELSE IF kv.key = <<"_", "n", "o", "d", "e", "p", "s">>
                    THEN scan_build_fields(Tail(lines),
                            [acc EXCEPT !.build_nodeps = Value(lower(val) = <<"t", "r", "u", "e">>)])
                    ELSE scan_build_fields(Tail(lines), acc)

\* the _mode and _nodeps values the PKGBUILD text yields
parse_build_fields(text) ==
    scan_build_fields(text, [build_mode |-> Null, build_nodeps |-> Null])

\* makepkg --printsrcinfo: fails on an unclosed parenthesis; otherwise
\* prints the pkgbase and every variable that is not private to the recipe
makepkg_fails(text) ==
    \E i \in 1..Len(text) :
        LET cs == {text[i][k] : k \in 1..Len(text[i])} IN "(" \in cs /\ ")" \notin cs

RECURSIVE srcinfo_body(_)
srcinfo_body(text) ==
    IF text = <<>> THEN <<>>
    ELSE LET line == Head(text)
         IN IF line = <<>> \/ line[1] = "_" \/ "=" \notin {line[i] : i \in 1..Len(line)}
            THEN srcinfo_body(Tail(text))
            ELSE LET kv == split_eq(line)
                 IN <<kv.key \o <<" ", "=", " ">> \o kv.val>> \o srcinfo_body(Tail(text))

makepkg_printsrcinfo(text) ==
    <<<<"p", "k", "g", "b", "a", "s", "e", " ", "=", " ", "x">>>> \o srcinfo_body(text) \o << <<>> >>

\* sha256 of a file's content: equal exactly for equal contents
sha256sum(text) == <<"sha256", text>>

\* `assert self.checksums`: the checksums dict is empty
checksums_empty(obj) == ~obj.sum_pkgbuild.has /\ ~obj.sum_srcinfo.has

validate_checksums(obj, pkgbuild_text, srcinfo_state) ==
    /\ obj.sum_pkgbuild.has
    /\ obj.sum_pkgbuild = Value(sha256sum(pkgbuild_text))
    /\ obj.sum_srcinfo.has
    /\ srcinfo_state # {}
    /\ \A text \in srcinfo_state : obj.sum_srcinfo = Value(sha256sum(text))

\* the state a cache operation works on: the three files, the object, and
\* what the operation has done so far
si_state ==
    [pkgbuild |-> pkgbuild, srcinfo |-> srcinfo, meta_file |-> meta_file,
     obj |-> metadata, spawned |-> 0, wrote |-> {}, lines |-> {}, raised |-> FALSE]

refresh_srcinfo(t) ==
    IF t.raised THEN t
    ELSE IF makepkg_fails(t.pkgbuild)
    THEN [t EXCEPT !.spawned = @ + 1, !.raised = TRUE]
    ELSE LET output == makepkg_printsrcinfo(t.pkgbuild)
         IN [t EXCEPT !.spawned = @ + 1,
                      !.srcinfo = {output},
                      !.wrote = @ \cup {"SRCINFO"},
                      !.lines = {output}]

refresh_checksums(t) ==
    IF t.raised THEN t
    ELSE IF t.srcinfo = {} THEN [t EXCEPT !.raised = TRUE]
    ELSE [t EXCEPT !.obj.sum_pkgbuild = Value(sha256sum(t.pkgbuild)),
                   !.obj.sum_srcinfo = Value(sha256sum(CHOOSE text \in t.srcinfo : TRUE))]

refresh_build_fields(t) ==
    IF t.raised THEN t
    ELSE LET f == parse_build_fields(t.pkgbuild)
         IN [t EXCEPT !.obj.build_mode = f.build_mode,
                      !.obj.build_nodeps = f.build_nodeps]

\* JsonFile.write: the object's public keys go to srcinfo_meta.json
write_meta(t) ==
    IF t.raised THEN t
    ELSE [t EXCEPT !.meta_file = [t.obj EXCEPT !.st = "ok"],
                   !.wrote = @ \cup {"srcinfo_meta.json"}]

\* a refresh_all that keeps the build fields it has
refresh_all_keep_fields(t, write) ==
    LET r == refresh_checksums(refresh_srcinfo(t))
    IN IF write THEN write_meta(r) ELSE r

refresh_all(t, write) ==
    LET r == refresh_build_fields(refresh_checksums(refresh_srcinfo(t)))
    IN IF write THEN write_meta(r) ELSE r

\* generate_new calls refresh_all() without passing its write argument on
generate_new(t, write) ==
    refresh_all([t EXCEPT !.obj = [st |-> "ok", sum_pkgbuild |-> Absent,
                                   sum_srcinfo |-> Absent,
                                   build_mode |-> Value(<<>>),
                                   build_nodeps |-> Null]], TRUE)

\* a handle_directory that returns a readable entry without validating it
handle_directory_trusting(t, force_refresh, write) ==
    IF t.meta_file.st # "ok" THEN generate_new(t, write)
    ELSE LET m0 == [t EXCEPT !.obj = t.meta_file]
             m1 == IF m0.srcinfo = {} THEN refresh_srcinfo(m0) ELSE m0
         IN IF m1.raised THEN m1
            ELSE IF checksums_empty(m1.obj) THEN [m1 EXCEPT !.raised = TRUE]
            ELSE IF ~force_refresh
            THEN LET m2 == [m1 EXCEPT !.lines = IF @ # {} THEN @ ELSE m1.srcinfo]
                 IN IF ~m2.obj.build_mode.has \/ ~m2.obj.build_nodeps.has
                    THEN refresh_build_fields(m2)
                    ELSE m2
            ELSE refresh_all(m1, write)

\* a handle_directory that refreshes on a cache hit too
handle_directory_refreshing(t, force_refresh, write) ==
    IF t.meta_file.st # "ok" THEN generate_new(t, write)
    ELSE LET m0 == [t EXCEPT !.obj = t.meta_file]
             m1 == IF m0.srcinfo = {} THEN refresh_srcinfo(m0) ELSE m0
         IN IF m1.raised THEN m1
            ELSE IF checksums_empty(m1.obj) THEN [m1 EXCEPT !.raised = TRUE]
            ELSE IF ~validate_checksums(m1.obj, m1.pkgbuild, m1.srcinfo)
            THEN generate_new(m1, write)
            ELSE refresh_all(m1, write)

handle_directory(t, force_refresh, write) ==
    IF t.meta_file.st # "ok" THEN generate_new(t, write)
    ELSE LET m0 == [t EXCEPT !.obj = t.meta_file]
             m1 == IF m0.srcinfo = {} THEN refresh_srcinfo(m0) ELSE m0
         IN IF m1.raised THEN m1
            ELSE IF checksums_empty(m1.obj) THEN [m1 EXCEPT !.raised = TRUE]
            ELSE IF ~validate_checksums(m1.obj, m1.pkgbuild, m1.srcinfo)
            THEN generate_new(m1, write)
            ELSE IF ~force_refresh
            THEN LET m2 == [m1 EXCEPT !.lines = IF @ # {} THEN @ ELSE m1.srcinfo]
                 IN IF ~m2.obj.build_mode.has \/ ~m2.obj.build_nodeps.has
                    THEN refresh_build_fields(m2)
                    ELSE m2
            ELSE refresh_all(m1, write)

\* the entry on disk is readable and valid for the files on disk
entry_valid(e, pkgbuild_text, srcinfo_state) ==
    /\ e.st = "ok"
    /\ ~checksums_empty(e)
    /\ validate_checksums(e, pkgbuild_text, srcinfo_state)

SiCommit(t, o) ==
    /\ pkgbuild' = t.pkgbuild
    /\ srcinfo' = t.srcinfo
    /\ meta_file' = t.meta_file
    /\ metadata' = IF t.raised THEN metadata ELSE t.obj
    /\ si_call' = [o EXCEPT !.valid = entry_valid(meta_file, pkgbuild, srcinfo),
                            !.spawned = t.spawned, !.wrote = t.wrote,
                            !.lines = IF t.raised THEN {} ELSE t.lines,
                            !.raised = t.raised]
    /\ UNCHANGED nonSrcinfoVars

HandleDirectory ==
    \E force_refresh \in BOOLEAN, write \in BOOLEAN :
        SiCommit(handle_directory(si_state, force_refresh, write),
                 [NoSiCall EXCEPT !.op = "handle_directory",
                                  !.force_refresh = force_refresh, !.write = write])

\* setup_sources: cache.refresh_all(write=True) on the object the recipe holds
RefreshAll ==
    /\ metadata.st = "ok"
    /\ SiCommit(refresh_all(si_state, TRUE),
                [NoSiCall EXCEPT !.op = "refresh_all", !.write = TRUE])

\* the user (or makepkg's pkgver update) changes the PKGBUILD
EditPkgbuild ==
    /\ \E text \in PkgbuildTexts \ {pkgbuild} : pkgbuild' = text
    /\ si_call' = [NoSiCall EXCEPT !.op = "edit"]
    /\ UNCHANGED <<srcinfo, meta_file, metadata>>
    /\ UNCHANGED nonSrcinfoVars

DeleteSrcinfo ==
    /\ srcinfo # {}
    /\ srcinfo' = {}
    /\ si_call' = [NoSiCall EXCEPT !.op = "delete_srcinfo"]
    /\ UNCHANGED <<pkgbuild, meta_file, metadata>>
    /\ UNCHANGED nonSrcinfoVars

\* an entry written before the build fields existed, for the PKGBUILD text
old_entry(text) ==
    [st |-> "ok",
     sum_pkgbuild |-> Value(sha256sum(text)),
     sum_srcinfo |-> Value(sha256sum(makepkg_printsrcinfo(text))),
     build_mode |-> Absent, build_nodeps |-> Absent]

\* a recipe directory as a checkout leaves it: any PKGBUILD; a SRCINFO that
\* is missing or was generated from some PKGBUILD; an entry that is
\* missing, unreadable or was written for some PKGBUILD
InitSrcinfo ==
    /\ pkgbuild \in PkgbuildTexts
    /\ srcinfo \in {{}} \cup {{makepkg_printsrcinfo(text)} :
                                text \in {x \in PkgbuildTexts : ~makepkg_fails(x)}}
    /\ meta_file \in {NoMeta, [NoMeta EXCEPT !.st = "corrupt"]}
                       \cup {old_entry(text) : text \in {x \in PkgbuildTexts : ~makepkg_fails(x)}}
    /\ metadata = NoMeta
    /\ si_call = NoSiCall
    /\ SolverIdle
    /\ ProfileIdle
    /\ DependantsIdle
    /\ ConfigIdle
    /\ FileIdle
    /\ ExecIdle
    /\ ConfIdle
    /\ DiscoverIdle
    /\ QemuIdle
    /\ VersionIdle
    /\ RouterIdle
    /\ BuildIdle
    /\ depends = [r \in 1..NRecipes |-> {}]
    /\ provides = [r \in Recipes |-> {}]
    /\ replaces = [r \in Recipes |-> {}]
    /\ to_build = {}
    /\ ChrootIdle
    /\ FreshIdle

NextSrcinfo ==
    \/ HandleDirectory
    \/ RefreshAll
    \/ EditPkgbuild
    \/ DeleteSrcinfo

SpecSrcinfo == InitSrcinfo /\ [][NextSrcinfo]_vars

\* C39: handle_directory(write=False) leaves srcinfo_meta.json as it was
\* before the call, in every branch.
C39_NoWriteLeavesCacheFile ==
    [][(si_call'.op = "handle_directory" /\ ~si_call'.write)
       => meta_file' = meta_file]_vars

(***************************************************************************)
(* Properties of the SRCINFO cache                                         *)
(***************************************************************************)
\* the build fields of entry e are those the PKGBUILD on disk yields
fields_current(e) ==
    /\ e.build_mode = parse_build_fields(pkgbuild).build_mode
    /\ e.build_nodeps = parse_build_fields(pkgbuild).build_nodeps

\* C9: an entry, on disk or held in memory, whose checksums validate
\* against the files on disk carries the build_mode and build_nodeps that
\* parsing the PKGBUILD on disk yields.
C9_ValidEntryHasCurrentFields ==
    /\ (entry_valid(metadata, pkgbuild, srcinfo) => fields_current(metadata))
    /\ (entry_valid(meta_file, pkgbuild, srcinfo) /\ meta_file.build_mode.has
            => fields_current(meta_file))

\* a regenerated entry for a PKGBUILD with quoted build fields, valid on
\* disk and in memory
C9_Witness ==
    /\ si_call.op \in {"handle_directory", "refresh_all"}
    /\ si_call.spawned = 1
    /\ entry_valid(metadata, pkgbuild, srcinfo)
    /\ entry_valid(meta_file, pkgbuild, srcinfo)
    /\ metadata.build_mode = Value(<<"c", "r", "o", "s", "s">>)
    /\ metadata.build_nodeps = Value(TRUE)
    /\ meta_file.build_mode = Value(<<"c", "r", "o", "s", "s">>)

\* C10: handle_directory without force_refresh on a readable entry whose
\* checksums match the files on disk runs no makepkg, writes no file and
\* returns the lines of the SRCINFO on disk.
C10_CacheHitTouchesNothing ==
    [][(/\ si_call'.op = "handle_directory"
        /\ ~si_call'.force_refresh
        /\ entry_valid(meta_file, pkgbuild, srcinfo))
       => (/\ ~si_call'.raised
           /\ si_call'.spawned = 0
           /\ si_call'.wrote = {}
           /\ si_call'.lines = srcinfo
           /\ pkgbuild' = pkgbuild
           /\ srcinfo' = srcinfo
           /\ meta_file' = meta_file)]_vars

C10_Witness ==
    /\ si_call.op = "handle_directory"
    /\ ~si_call.force_refresh
    /\ si_call.valid
    /\ si_call.spawned = 0
    /\ si_call.wrote = {}
    /\ si_call.lines # {}
    /\ si_call.lines = srcinfo
    /\ meta_file.build_mode.has

(***************************************************************************)
(* Artifact freshness (packages/build.py, distro/repo.py)                  *)
(* One recipe in one channel.  A package file is named                     *)
(* <name>-<version>-<tag>.pkg.tar.<ext>; the files tracked are those of    *)
(* the recipe's version, whose tag is "any" or the directory's arch.       *)
(***************************************************************************)
Versions == 1..MaxVersion
Contents == 1..MaxContent

\* config.runtime.arch: the machine the process runs on
runtime_arch == ARCHES[1]

\* resolve_url substitutes config.runtime['arch'] for $arch, whatever arch
\* it is given: every local repo object resolves to the host's directory
resolve_url(arch) == runtime_arch

\* the arch tag of the recipe's package file in the directory of arch
file_tag(arch) == IF recipe.any THEN "any" ELSE arch

\* the state a freshness check works on, and what it has done so far
fr_state ==
    [files |-> repo_files, db |-> repo_db, tables |-> repo_tables,
     cache |-> pacman_cache, copies |-> 0, repo_adds |-> 0, removed |-> 0,
     raised |-> FALSE]

\* Repo.scan: reads the DB only when asked to refresh or never scanned
\* before; entries are added to the table, none is dropped
scan(t, arch, refresh) ==
    IF refresh \/ ~t.tables[arch].scanned
    THEN LET listed == t.db[resolve_url(arch)]
         IN [t EXCEPT !.tables[arch] =
                [scanned |-> TRUE,
                 entry |-> IF listed = NoEntry THEN @.entry ELSE listed]]
    ELSE t

\* add_file_to_repo(file, repo, arch, remove_original=False); file is the
\* <<directory arch, ext>> of a package file, cmd_ok whether repo-add succeeds
add_file_to_repo(t, file, arch, cmd_ok) ==
    IF t.raised THEN t
    ELSE LET target_file == <<arch, file[2]>>
             t1 == IF file # target_file
                   THEN [t EXCEPT !.files[target_file] = t.files[file],
                                  !.copies = @ + 1]
                   ELSE t
             t2 == IF target_file \in t1.cache
                   THEN [t1 EXCEPT !.cache = @ \ {target_file},
                                   !.removed = @ + 1]
                   ELSE t1
         IN IF cmd_ok
            THEN [t2 EXCEPT !.repo_adds = @ + 1,
                            !.db[arch] = [version |-> recipe.version,
                                          tag |-> file_tag(arch),
                                          ext |-> file[2],
                                          sum |-> t2.files[target_file]]]
            ELSE [t2 EXCEPT !.repo_adds = @ + 1, !.raised = TRUE]

\* a check that trusts every entry of the recipe's version
db_entry_trusted(t, arch) ==
    /\ t.tables[arch].entry # NoEntry
    /\ t.tables[arch].entry.version = recipe.version

\* the try block: the table's entry matches the recipe and the file it names
db_entry_matches(t, arch) ==
    LET binpkg == t.tables[arch].entry
    IN /\ binpkg # NoEntry
       /\ binpkg.version = recipe.version
       /\ binpkg.tag \in (IF recipe.any THEN {"any"} ELSE {arch})
       /\ binpkg.tag = file_tag(arch)
       /\ t.files[<<resolve_url(arch), binpkg.ext>>] # 0
       /\ binpkg.sum # 0
       /\ t.files[<<resolve_url(arch), binpkg.ext>>] = binpkg.sum

\* lines 358-364 fail: the entry is for the recipe's version and arch, but
\* the file it names is missing or its SHA-256 is not the recorded one
entry_stale(t, arch) ==
    LET binpkg == t.tables[arch].entry
    IN /\ binpkg # NoEntry
       /\ binpkg.version = recipe.version
       /\ binpkg.tag = file_tag(arch)
       /\ \/ t.files[<<resolve_url(arch), binpkg.ext>>] = 0
          \/ t.files[<<resolve_url(arch), binpkg.ext>>] # binpkg.sum

\* the any-arch lookup in the other arches' directories: the last directory
\* that holds the file wins
RECURSIVE other_repo_file(_, _, _, _)
other_repo_file(t, arch, arches, found) ==
    IF arches = <<>> THEN found
    ELSE IF Head(arches) # arch /\ t.files[<<Head(arches), "zst">>] # 0
    THEN other_repo_file(t, arch, Tail(arches), {<<Head(arches), "zst">>})
    ELSE other_repo_file(t, arch, Tail(arches), found)

\* one round of the loop over the extensions; s holds the state t, missing
\* and the current file
probe(s, arch, ext, try_download, cmd_ok) ==
    IF ~s.missing \/ s.t.raised THEN s
    ELSE LET file == <<arch, ext>>
             target_repo_file == <<arch, "zst">>
             others == other_repo_file(s.t, arch, ARCHES, {})
             s1 == IF s.t.files[file] # 0 THEN [s EXCEPT !.file = file]
                   ELSE IF recipe.any /\ s.t.files[target_repo_file] # 0
                   THEN [s EXCEPT !.file = target_repo_file, !.missing = FALSE]
                   ELSE IF recipe.any /\ others # {}
                   THEN [s EXCEPT !.file = CHOOSE f \in others : TRUE, !.missing = FALSE]
                   ELSE [s EXCEPT !.file = file]
             \* try_download_package scans the HTTPS repo, whose scan calls
             \* download_file(uri) without the url argument
             s2 == IF s.t.files[file] = 0 /\ try_download /\ s1.missing
                   THEN [s1 EXCEPT !.t.raised = TRUE]
                   ELSE s1
         IN IF ~s2.t.raised /\ s2.t.files[s2.file] # 0
            THEN [s2 EXCEPT !.missing = FALSE,
                            !.t = scan(add_file_to_repo(s2.t, s2.file, arch, cmd_ok), arch, FALSE)]
            ELSE s2

RECURSIVE probe_all(_, _, _, _, _)
probe_all(s, arch, exts, try_download, cmd_ok) ==
    IF exts = <<>> THEN s
    ELSE probe_all(probe(s, arch, Head(exts), try_download, cmd_ok),
                   arch, Tail(exts), try_download, cmd_ok)

\* copying an any-arch package to the arches that lack it
RECURSIVE copy_to_arches(_, _, _, _)
copy_to_arches(s, arch, arches, cmd_ok) ==
    IF arches = <<>> \/ s.t.raised THEN s
    ELSE LET repo_arch == Head(arches)
             copy_target == <<repo_arch, s.filename_ext>>
         IN IF repo_arch # arch /\ s.t.files[copy_target] = 0
            THEN copy_to_arches(
                   [s EXCEPT !.t = scan(add_file_to_repo(s.t, s.file, repo_arch, cmd_ok),
                                        repo_arch, FALSE)],
                   arch, Tail(arches), cmd_ok)
            ELSE copy_to_arches(s, arch, Tail(arches), cmd_ok)

check_package_version_built(t, arch, try_download, cmd_ok) ==
    LET t0 == scan(t, arch, FALSE)
        s0 == IF db_entry_matches(t0, arch)
              THEN [t |-> t0, missing |-> FALSE,
                    file |-> <<resolve_url(arch), t0.tables[arch].entry.ext>>,
                    filename_ext |-> t0.tables[arch].entry.ext]
              ELSE [t |-> t0, missing |-> TRUE, file |-> <<arch, "zst">>,
                    filename_ext |-> "zst"]
        s1 == probe_all(s0, arch, ProbeExts, try_download, cmd_ok)
    IN IF recipe.any /\ ~s1.missing
       THEN copy_to_arches(s1, arch, ARCHES, cmd_ok)
       ELSE s1

CheckPackageVersionBuilt ==
    \E arch \in ArchSet, try_download \in BOOLEAN, cmd_ok \in BOOLEAN :
        LET s == check_package_version_built(fr_state, arch, try_download, cmd_ok)
        IN /\ repo_files' = s.t.files
           /\ repo_db' = s.t.db
           /\ repo_tables' = s.t.tables
           /\ pacman_cache' = s.t.cache
           /\ fr_call' = [op |-> "check", arch |-> arch, try_download |-> try_download,
                          result |-> ~s.t.raised /\ ~s.missing,
                          copies |-> s.t.copies, repo_adds |-> s.t.repo_adds,
                          removed |-> s.t.removed, raised |-> s.t.raised,
                          demoted |-> entry_stale(scan(fr_state, arch, FALSE), arch)]
           /\ UNCHANGED <<recipe, pkgbuild_dir>>
           /\ UNCHANGED nonFreshVars

\* the replication of an any-arch package with remove_original left at its
\* default: the copy in the channel of arch is removed once it is copied
RECURSIVE replicate_moving(_, _, _, _, _)
RECURSIVE replicate(_, _, _, _, _)
replicate_moving(t, repo_file, arch, arches, cmd_ok) ==
    IF arches = <<>> \/ t.raised THEN t
    ELSE IF Head(arches) = arch
    THEN replicate_moving(t, repo_file, arch, Tail(arches), cmd_ok)
    ELSE replicate_moving(
           [add_file_to_repo(t, repo_file, Head(arches), cmd_ok)
               EXCEPT !.files[repo_file] = 0],
           repo_file, arch, Tail(arches), cmd_ok)

\* the inner loop of add_package_to_repo: the file just added to the channel
\* of arch is added to every other arch's channel, remove_original=False
replicate(t, repo_file, arch, arches, cmd_ok) ==
    IF arches = <<>> \/ t.raised THEN t
    ELSE IF Head(arches) = arch
    THEN replicate(t, repo_file, arch, Tail(arches), cmd_ok)
    ELSE replicate(add_file_to_repo(t, repo_file, Head(arches), cmd_ok),
                   repo_file, arch, Tail(arches), cmd_ok)

\* add_package_to_repo(package, arch) with the package file built in the
\* recipe's directory: the file is moved into the channel of arch
\* (remove_original at its default True), inserted there, and an any-arch
\* file is then replicated.  The result holds the state and the directory.
add_package_to_repo(t, built, arch, cmd_ok) ==
    IF built = {} THEN [t |-> t, dir |-> built]
    ELSE LET file == CHOOSE f \in built : TRUE
             repo_file == <<arch, file[1]>>
             moved == [t EXCEPT !.files[repo_file] = file[2], !.copies = @ + 1]
             added == add_file_to_repo(moved, repo_file, arch, cmd_ok)
         IN [t |-> IF recipe.any
                   THEN replicate(added, repo_file, arch, ARCHES, cmd_ok)
                   ELSE added,
             dir |-> {}]

AddPackageToRepo ==
    \E arch \in ArchSet, cmd_ok \in BOOLEAN :
        LET s == add_package_to_repo(fr_state, pkgbuild_dir, arch, cmd_ok)
        IN /\ repo_files' = s.t.files
           /\ repo_db' = s.t.db
           /\ pacman_cache' = s.t.cache
           /\ pkgbuild_dir' = s.dir
           /\ fr_call' = [NoFrCall EXCEPT !.op = "add", !.arch = arch,
                                         !.copies = s.t.copies,
                                         !.repo_adds = s.t.repo_adds,
                                         !.removed = s.t.removed,
                                         !.raised = s.t.raised]
           /\ UNCHANGED <<recipe, repo_tables>>
           /\ UNCHANGED nonFreshVars

\* a new process: the LocalRepo objects of get_kupfer_local are created anew
ProcessRestart ==
    /\ repo_tables' = [a \in ArchSet |-> [scanned |-> FALSE, entry |-> NoEntry]]
    /\ fr_call' = [NoFrCall EXCEPT !.op = "restart"]
    /\ UNCHANGED <<recipe, repo_files, repo_db, pacman_cache, pkgbuild_dir>>
    /\ UNCHANGED nonFreshVars

\* the channel directories as earlier runs may have left them: at most
\* MaxFiles package files of the recipe's version and MaxEntries DB entries
InitFresh ==
    /\ recipe \in [version : {MaxVersion}, any : BOOLEAN]
    /\ repo_files \in {f \in [ArchSet \X ExtSet -> 0..MaxContent] :
                         Cardinality({k \in ArchSet \X ExtSet : f[k] # 0}) <= MaxFiles}
    /\ repo_db \in [ArchSet -> {NoEntry}]
         \cup {d \in [ArchSet -> {NoEntry} \cup [version : Versions, tag : ArchSet \cup {"any"},
                                                 ext : ExtSet, sum : Contents]] :
                 /\ Cardinality({a \in ArchSet : d[a] # NoEntry}) <= MaxEntries
                 /\ \A a \in ArchSet :
                       d[a] # NoEntry => d[a].tag = IF recipe.any THEN "any" ELSE a}
    /\ repo_tables = [a \in ArchSet |-> [scanned |-> FALSE, entry |-> NoEntry]]
    /\ pacman_cache \in {{}, {<<runtime_arch, "zst">>}}
    /\ pkgbuild_dir = {}
    /\ fr_call = NoFrCall
    /\ SolverIdle
    /\ ProfileIdle
    /\ DependantsIdle
    /\ ConfigIdle
    /\ FileIdle
    /\ ExecIdle
    /\ ConfIdle
    /\ DiscoverIdle
    /\ QemuIdle
    /\ VersionIdle
    /\ RouterIdle
    /\ BuildIdle
    /\ depends = [r \in 1..NRecipes |-> {}]
    /\ provides = [r \in Recipes |-> {}]
    /\ replaces = [r \in Recipes |-> {}]
    /\ to_build = {}
    /\ ChrootIdle
    /\ SrcinfoIdle

NextFresh ==
    \/ CheckPackageVersionBuilt
    \/ ProcessRestart

SpecFresh == InitFresh /\ [][NextFresh]_vars

\* a finished build: the channel directories as for the freshness check, and
\* the package file makepkg wrote into the recipe's directory
InitRepoAdd ==
    /\ recipe \in [version : {MaxVersion}, any : BOOLEAN]
    /\ repo_files \in {f \in [ArchSet \X ExtSet -> 0..MaxContent] :
                         Cardinality({k \in ArchSet \X ExtSet : f[k] # 0}) <= MaxFiles}
    /\ repo_db \in [ArchSet -> {NoEntry}]
         \cup {d \in [ArchSet -> {NoEntry} \cup [version : Versions, tag : ArchSet \cup {"any"},
                                                 ext : ExtSet, sum : Contents]] :
                 /\ Cardinality({a \in ArchSet : d[a] # NoEntry}) <= MaxEntries
                 /\ \A a \in ArchSet :
                       d[a] # NoEntry => d[a].tag = IF recipe.any THEN "any" ELSE a}
    /\ repo_tables = [a \in ArchSet |-> [scanned |-> FALSE, entry |-> NoEntry]]
    /\ pacman_cache \in {{}, {<<runtime_arch, "zst">>}}
    /\ pkgbuild_dir \in {{f} : f \in ExtSet \X Contents}
    /\ fr_call = NoFrCall
    /\ SolverIdle
    /\ ProfileIdle
    /\ DependantsIdle
    /\ ConfigIdle
    /\ FileIdle
    /\ ExecIdle
    /\ ConfIdle
    /\ DiscoverIdle
    /\ QemuIdle
    /\ VersionIdle
    /\ RouterIdle
    /\ BuildIdle
    /\ depends = [r \in 1..NRecipes |-> {}]
    /\ provides = [r \in Recipes |-> {}]
    /\ replaces = [r \in Recipes |-> {}]
    /\ to_build = {}
    /\ ChrootIdle
    /\ SrcinfoIdle

NextRepoAdd == AddPackageToRepo

SpecRepoAdd == InitRepoAdd /\ [][NextRepoAdd]_vars

(***************************************************************************)
(* Properties of the artifact freshness check                              *)
(***************************************************************************)
\* C8: a check that directly follows a completed check with the same
\* arguments returns what the first returned, copies no file, runs no
\* repo-add and leaves the files, the DBs and the pacman cache as they were.
C8_SecondCallIsNoop ==
    [][(/\ fr_call.op = "check"
        /\ ~fr_call.raised
        /\ fr_call'.op = "check"
        /\ fr_call'.arch = fr_call.arch
        /\ fr_call'.try_download = fr_call.try_download)
       => (/\ ~fr_call'.raised
           /\ fr_call'.result = fr_call.result
           /\ fr_call'.copies = 0
           /\ fr_call'.repo_adds = 0
           /\ fr_call'.removed = 0
           /\ repo_files' = repo_files
           /\ repo_db' = repo_db
           /\ pacman_cache' = pacman_cache)]_vars

C16_WitnessMissing ==
    /\ fr_call.op = "check"
    /\ fr_call.demoted
    /\ ~fr_call.result
    /\ ~fr_call.raised

C17_OnRuntimeArch ==
    [][(/\ fr_call'.op = "check"
        /\ fr_call'.result
        /\ fr_call'.arch = runtime_arch)
       => \E ext \in ExtSet :
             /\ repo_files'[<<fr_call'.arch, ext>>] # 0
             /\ repo_db'[fr_call'.arch] # NoEntry
             /\ repo_db'[fr_call'.arch].version = recipe.version
             /\ repo_db'[fr_call'.arch].ext = ext]_vars

\* C18: add_package_to_repo for arch A with an any-arch package file in the
\* recipe's directory, when it returns, leaves that file in the channel
\* directory of every arch in ARCHES, listed in each of those channels' DBs
\* with its checksum; A's copy is among them.
C18_AnyArchReplicated ==
    [][(/\ fr_call'.op = "add"
        /\ ~fr_call'.raised
        /\ recipe.any
        /\ pkgbuild_dir # {})
       => \A f \in pkgbuild_dir : \A a \in ArchSet :
             /\ repo_files'[<<a, f[1]>>] = f[2]
             /\ repo_db'[a] = [version |-> recipe.version, tag |-> "any",
                               ext |-> f[1], sum |-> f[2]]]_vars

\* an any-arch file was moved into one channel, copied to the other and
\* inserted into both DBs
C18_Witness ==
    /\ fr_call.op = "add"
    /\ ~fr_call.raised
    /\ recipe.any
    /\ fr_call.repo_adds = Len(ARCHES)
    /\ fr_call.copies = Len(ARCHES)
    /\ \E ext \in ExtSet : \A a \in ArchSet : repo_files[<<a, ext>>] # 0

\* C22: a check with try_download set that consults the HTTPS mirror does
\* not raise - a call that ran no repo-add returns without raising - and a
\* recipe it could not download is reported as not built.
C22_DownloadFailureIsSoft ==
    [][(/\ fr_call'.op = "check"
        /\ fr_call'.try_download
        /\ fr_call'.repo_adds = 0)
       => ~fr_call'.raised]_vars

(***************************************************************************)
(* Build orchestrator: build_packages, packages/build.py                   *)
(***************************************************************************)
\* the arch argument of the run
target_arch == ARCHES[2]
ArchChoices == {{"any"}, {ARCHES[1]}, {ARCHES[2]}}

\* "while dep_levels[level]" of generate_dependency_chain run to its end
\* with one iteration order ord
RECURSIVE chain_loop(_, _)
chain_loop(s, ord) ==
    IF s.levels[s.level + 1] = {}
    THEN [pc |-> "done", plan |-> reverse_pruned(s.levels)]
    ELSE IF s.level > MaxDepth THEN [pc |-> "error_depth", plan |-> <<>>]
    ELSE LET level_copy == s.levels[s.level + 1]
             st == scan_level(InOrder(ord, level_copy), ord, level_copy,
                              [vis |-> s.vis, vn |-> s.vn, lvl |-> level_copy,
                               nxt |-> s.levels[s.level + 2], mod |-> FALSE])
             rc == IF s.last = {st.lvl} THEN s.rc + 1 ELSE 0
             lv == [s.levels EXCEPT ![s.level + 1] = st.lvl, ![s.level + 2] = st.nxt]
         IN IF rc > RepeatLimit THEN [pc |-> "error_cycle", plan |-> <<>>]
            ELSE chain_loop([vis |-> st.vis, vn |-> st.vn,
                             levels |-> IF ~st.mod THEN Append(lv, {}) ELSE lv,
                             level |-> IF ~st.mod THEN s.level + 1 ELSE s.level,
                             rc |-> rc, last |-> {st.lvl}], ord)

\* generate_dependency_chain(package_repo, to_build) as one call
generate_dependency_chain(seed, ord) ==
    LET st == seed_level0(InOrder(ord, seed), ord, [vis |-> {}, vn |-> {}, lvl |-> {}])
    IN chain_loop([vis |-> st.vis, vn |-> st.vn, levels |-> <<st.lvl, {}>>,
                   level |-> 0, rc |-> 0, last |-> {}], ord)

RECURSIVE prune_empty(_)
prune_empty(levels) ==
    IF levels = <<>> THEN <<>>
    ELSE (IF Head(levels) # {} THEN <<Head(levels)>> ELSE <<>>) \o prune_empty(Tail(levels))

\* get_unbuilt_package_levels with rebuild_dependants at its default False:
\* of every level of the chain keep the recipes that are forced or that
\* check_package_version_built reports as not built; drop the empty levels
get_unbuilt_package_levels(packages, force, ord) ==
    LET chain == generate_dependency_chain(packages, ord)
        needs(package) == (force /\ package \in packages) \/ package \notin prebuilt
    IN [pc |-> chain.pc,
        levels |-> prune_empty([i \in DOMAIN chain.plan |->
                                   {package \in chain.plan[i] : needs(package)}])]

\* the recipes get_unbuilt_package_levels hands to
\* check_package_version_built, which scans the local repos
checked_packages(packages, force, ord) ==
    LET chain == generate_dependency_chain(packages, ord)
    IN {package \in UNION {chain.plan[i] : i \in DOMAIN chain.plan} :
           ~(force /\ package \in packages)}

\* Repo.scan(refresh=False): the package table is read from the DB only
\* while the repo is not yet marked scanned
repo_scan(scanned, table, db) == IF ~scanned THEN db ELSE table

\* package.is_built(arch): the base was built for arch during this run
is_built(package, arch, bf) == bf[pkgbase[package]] \cap {arch, "any"} # {}

\* build_package as build_packages sees it.  o.cross: the recipe is
\* cross-compiled; o.nodeps: it declares _nodeps; o.install: "ok", or which
\* package pacman failed to install ("dep_failed", "crossdirect_failed");
\* o.makepkg_ok: the exit of makepkg.  When cross-compiling only a failed
\* crossdirect installation raises (lines 543-548), otherwise any failed
\* dependency does (lines 568-572); makepkg runs if nothing raised before.
build_package(o) ==
    LET ran_install == o.cross \/ ~o.nodeps
        install_failed == ran_install /\ o.install # "ok"
        install_raised == IF o.cross
                          THEN ~o.nodeps /\ o.install = "crossdirect_failed"
                          ELSE ~o.nodeps /\ o.install # "ok"
        ran_makepkg == ~install_raised
    IN [install_failed |-> install_failed,
        ran_makepkg |-> ran_makepkg,
        makepkg_failed |-> ran_makepkg /\ ~o.makepkg_ok,
        raised |-> install_raised \/ (ran_makepkg /\ ~o.makepkg_ok)]

\* the iteration propagates every exception of build_package and of
\* add_package_to_repo
build_one_swallowing(package, arch, o, s) ==
    [s EXCEPT !.did = "failed", !.build_raised = build_package(o).raised]

\* the body of "for package in need_build", lines 731-751
build_one(package, arch, o, s) ==
    LET base == pkgbase[package] IN
    IF is_built(package, arch, s.bf) THEN [s EXCEPT !.did = "skipped"]
    ELSE LET b == build_package(o)
             s1 == [s EXCEPT !.runs = IF b.ran_makepkg THEN Append(@, package) ELSE @,
                             !.install_failed = b.install_failed,
                             !.makepkg_failed = b.makepkg_failed,
                             !.build_raised = b.raised]
         IN IF b.raised \/ ~o.repo_add_ok
            THEN [s1 EXCEPT !.did = "failed", !.raised = TRUE]
            ELSE [s1 EXCEPT !.did = "built",
                            !.ins = @ \cup {base},
                            !.bf = [@ EXCEPT ![base] = @ \cup ({"any", arch} \cap base_arches[base])]]

\* what the commands of one iteration can return
BuildOutcomes ==
    {[cross |-> FALSE, nodeps |-> FALSE, install |-> "ok", makepkg_ok |-> TRUE, repo_add_ok |-> TRUE],
     [cross |-> FALSE, nodeps |-> FALSE, install |-> "dep_failed", makepkg_ok |-> TRUE, repo_add_ok |-> TRUE],
     [cross |-> FALSE, nodeps |-> FALSE, install |-> "ok", makepkg_ok |-> FALSE, repo_add_ok |-> TRUE],
     [cross |-> FALSE, nodeps |-> FALSE, install |-> "ok", makepkg_ok |-> TRUE, repo_add_ok |-> FALSE],
     [cross |-> TRUE, nodeps |-> FALSE, install |-> "dep_failed", makepkg_ok |-> TRUE, repo_add_ok |-> TRUE],
     [cross |-> TRUE, nodeps |-> FALSE, install |-> "crossdirect_failed", makepkg_ok |-> TRUE, repo_add_ok |-> TRUE]}

\* the iteration of "for level, need_build in enumerate(build_levels): for
\* package in need_build", every level set iterated in the order ord
RECURSIVE iteration_order(_, _)
iteration_order(levels, ord) ==
    IF levels = <<>> THEN <<>>
    ELSE InOrder(ord, Head(levels)) \o iteration_order(Tail(levels), ord)

\* lines 698-726: make the build plan; return when nothing needs building
BuildPackagesStart ==
    /\ bp_pc = "start"
    /\ \E ord \in NameOrders : \E force \in BOOLEAN :
        LET r == get_unbuilt_package_levels(to_build, force, ord) IN
        /\ build_levels' = r.levels
        /\ bp_pc' = IF r.pc # "done" THEN "raised"
                    ELSE IF r.levels = <<>> THEN "returned" ELSE "building"
        /\ need_build' = iteration_order(r.levels, ord)
        /\ repo_scanned' = (repo_scanned \/ checked_packages(to_build, force, ord) # {})
    /\ bp_call' = [NoBpCall EXCEPT !.op = "get_unbuilt_package_levels"]
    /\ UNCHANGED <<pkgbase, base_arches, prebuilt, built_for, makepkg_runs, inserted,
                   repo_packages>>
    /\ UNCHANGED nonBuildVars

\* lines 727-751: one iteration of the inner loop
BuildNext ==
    /\ bp_pc = "building"
    /\ need_build # <<>>
    /\ \E outcome \in BuildOutcomes :
        LET package == Head(need_build)
            s == build_one(package, target_arch, outcome,
                           [bf |-> built_for, runs |-> makepkg_runs, ins |-> inserted,
                            did |-> "", raised |-> FALSE, install_failed |-> FALSE,
                            makepkg_failed |-> FALSE, build_raised |-> FALSE])
        IN /\ built_for' = s.bf
           /\ makepkg_runs' = s.runs
           /\ inserted' = s.ins
           /\ bp_call' = [op |-> "build", package |-> package, did |-> s.did,
                          install_failed |-> s.install_failed,
                          makepkg_failed |-> s.makepkg_failed,
                          build_raised |-> s.build_raised]
           /\ IF s.raised
              THEN /\ bp_pc' = "raised"
                   /\ UNCHANGED need_build
              ELSE /\ bp_pc' = "building"
                   /\ need_build' = Tail(need_build)
    /\ UNCHANGED <<pkgbase, base_arches, prebuilt, build_levels, repo_scanned, repo_packages>>
    /\ UNCHANGED nonBuildVars

\* lines 752-759: all levels are done, rescan and return the files
BuildReturn ==
    /\ bp_pc = "building"
    /\ need_build = <<>>
    /\ bp_pc' = "returned"
    /\ repo_packages' = repo_scan(repo_scanned, repo_packages, inserted)
    /\ repo_scanned' = TRUE
    /\ bp_call' = [NoBpCall EXCEPT !.op = "return"]
    /\ UNCHANGED <<pkgbase, base_arches, prebuilt, build_levels, need_build,
                   built_for, makepkg_runs, inserted>>
    /\ UNCHANGED nonBuildVars

\* the inputs: a recipe tree without aliases and with at most MaxBuildEdges
\* dependency edges, of which at most MaxSubpackages recipes are further
\* subpackages of another recipe's base, all recipes declare the same arch
\* list and at most MaxPrebuilt recipes are up to date in the local repo; the
\* seed holds at most MaxSeeds recipes
InitBuild ==
    /\ depends \in [1..NRecipes -> SUBSET (1..NRecipes)]
    /\ SumOver([r \in Recipes |-> Cardinality(depends[r])], Recipes) <= MaxBuildEdges
    /\ provides = [r \in Recipes |-> {}]
    /\ replaces = [r \in Recipes |-> {}]
    /\ to_build \in {S \in SUBSET Recipes : S # {} /\ Cardinality(S) <= MaxSeeds}
    /\ SolverIdle
    /\ ProfileIdle
    /\ DependantsIdle
    /\ ConfigIdle
    /\ FileIdle
    /\ ExecIdle
    /\ ConfIdle
    /\ DiscoverIdle
    /\ QemuIdle
    /\ VersionIdle
    /\ RouterIdle
    /\ pkgbase \in {f \in [Recipes -> Recipes] :
                      /\ \A r \in Recipes : f[r] <= r /\ f[f[r]] = f[r]
                      /\ Cardinality({r \in Recipes : f[r] # r}) <= MaxSubpackages}
    /\ base_arches \in {[r \in Recipes |-> A] : A \in ArchChoices}
    /\ prebuilt \in {S \in SUBSET Recipes : Cardinality(S) <= MaxPrebuilt}
    /\ build_levels = <<>>
    /\ need_build = <<>>
    /\ built_for = [r \in Recipes |-> {}]
    /\ makepkg_runs = <<>>
    /\ inserted = {}
    /\ bp_pc = "start"
    /\ repo_scanned = FALSE
    /\ repo_packages = {}
    /\ bp_call = NoBpCall
    /\ ChrootIdle
    /\ SrcinfoIdle
    /\ FreshIdle

NextBuild == BuildPackagesStart \/ BuildNext \/ BuildReturn

SpecBuild == InitBuild /\ [][NextBuild]_vars

SkipsWhenArchDeclared ==
    \A i, j \in DOMAIN makepkg_runs :
        (i < j /\ base_arches[pkgbase[makepkg_runs[i]]] \cap {target_arch, "any"} # {})
            => pkgbase[makepkg_runs[i]] # pkgbase[makepkg_runs[j]]

\* the recipes of the build plan of the run
planned == UNION {build_levels[i] : i \in DOMAIN build_levels}

C12_WhenAcyclic ==
    [][(bp_call'.op = "build" /\ bp_call'.did \in {"built", "failed"}
        /\ ~\E r \in Recipes : on_cycle(r)) =>
          \A q \in planned :
              (local_dep(bp_call'.package, q) /\ pkgbase[q] # pkgbase[bp_call'.package])
                  => pkgbase[q] \in inserted]_vars

\* the level of the build plan that holds recipe p
level_of(p) == CHOOSE i \in DOMAIN build_levels : p \in build_levels[i]

BuildModes == {{}, {"host"}, {"cross"}}

\* a router that cross-compiles whatever the enable flags say
build_setup_ignoring_flags(a) ==
    LET foreign_arch == a.host # a.arch
        cross == foreign_arch /\ a.mode = {"cross"}
    IN [called |-> TRUE, foreign_arch |-> foreign_arch, cross |-> cross,
        build_root |-> IF cross THEN "native_chroot" ELSE "target_chroot",
        opts |-> <<"--holdver", IF cross \/ a.nodeps THEN "--nodeps" ELSE "--syncdeps">>,
        path_prefix |-> {}, mount_crosscompile |-> cross, mount_crossdirect |-> FALSE]

\* lines 500-579 of build_package: which chroot makepkg runs in, its
\* compile options, what is put in front of PATH and which chroot is mounted
\* into which.  a.host is config.runtime.arch, a.arch the target, a.mode and
\* a.nodeps the recipe's _mode and _nodeps, a.crossdirect_pkg whether the
\* recipe's name is one of CROSSDIRECT_PKGS.
build_setup_of(a) ==
    LET foreign_arch == a.host # a.arch
        cross == foreign_arch /\ a.mode = {"cross"} /\ a.enable_crosscompile
        crossdirect == ~cross /\ foreign_arch /\ a.enable_crossdirect /\ ~a.crossdirect_pkg
    IN [called |-> TRUE,
        foreign_arch |-> foreign_arch,
        cross |-> cross,
        build_root |-> IF cross THEN "native_chroot" ELSE "target_chroot",
        opts |-> <<"--holdver">> \o
                 (IF cross THEN <<"--nodeps">>
                  ELSE IF a.nodeps THEN <<"--nodeps">> ELSE <<"--syncdeps">>),
        path_prefix |-> IF crossdirect THEN {<<"/native/usr/lib/crossdirect", a.arch>>}
                        ELSE IF a.enable_ccache THEN {<<"/usr/lib/ccache">>} ELSE {},
        mount_crosscompile |-> cross,
        mount_crossdirect |-> crossdirect]

\* one build_package call
BuildPackage ==
    /\ build_setup = NoSetup
    /\ build_setup' = build_setup_of(build_args)
    /\ UNCHANGED build_args
    /\ UNCHANGED nonRouterVars

InitRouter ==
    /\ build_args \in [host : ArchSet, arch : ArchSet, mode : BuildModes, nodeps : BOOLEAN,
                       crossdirect_pkg : BOOLEAN, enable_crosscompile : BOOLEAN,
                       enable_crossdirect : BOOLEAN, enable_ccache : BOOLEAN]
    /\ build_setup = NoSetup
    /\ SolverIdle
    /\ ProfileIdle
    /\ DependantsIdle
    /\ ConfigIdle
    /\ FileIdle
    /\ ExecIdle
    /\ ConfIdle
    /\ DiscoverIdle
    /\ QemuIdle
    /\ VersionIdle
    /\ BuildIdle
    /\ depends = [r \in 1..NRecipes |-> {}]
    /\ provides = [r \in Recipes |-> {}]
    /\ replaces = [r \in Recipes |-> {}]
    /\ to_build = {}
    /\ ChrootIdle
    /\ SrcinfoIdle
    /\ FreshIdle

NextRouter == BuildPackage

SpecRouter == InitRouter /\ [][NextRouter]_vars

\* the strategy a setup amounts to
strategy(b) ==
    IF b.build_root = "native_chroot" /\ b.mount_crosscompile THEN "cross"
    ELSE IF b.mount_crossdirect /\ b.path_prefix \in {{<<"/native/usr/lib/crossdirect", a>>} : a \in ArchSet}
         THEN "crossdirect"
    ELSE IF b.foreign_arch THEN "foreign" ELSE "native"

\* C14: build_package sets up exactly the strategy of the table: native when
\* the target is the host arch; cross (makepkg in the native chroot, with
\* --nodeps) when the target differs, _mode is cross and crosscompile is
\* enabled; otherwise crossdirect (makepkg in the target chroot, the native
\* chroot mounted into it by mount_crossdirect, the crossdirect directory in
\* front of PATH) when crossdirect is enabled and the recipe is no
\* crossdirect package; otherwise plain foreign in the target chroot; every
\* strategy but cross passes --syncdeps unless the recipe declares _nodeps.
C14_StrategyTable ==
    build_setup # NoSetup =>
        LET a == build_args
            b == build_setup
            expected == IF a.host = a.arch THEN "native"
                        ELSE IF a.mode = {"cross"} /\ a.enable_crosscompile THEN "cross"
                        ELSE IF a.enable_crossdirect /\ ~a.crossdirect_pkg THEN "crossdirect"
                        ELSE "foreign"
        IN /\ strategy(b) = expected
           /\ expected = "cross" =>
                 /\ b.build_root = "native_chroot"
                 /\ b.opts = <<"--holdver", "--nodeps">>
                 /\ ~b.mount_crossdirect
           /\ expected # "cross" =>
                 /\ b.build_root = "target_chroot"
                 /\ ~b.mount_crosscompile
                 /\ b.opts = <<"--holdver", IF a.nodeps THEN "--nodeps" ELSE "--syncdeps">>
           /\ expected = "crossdirect" =>
                 /\ b.mount_crossdirect
                 /\ b.path_prefix = {<<"/native/usr/lib/crossdirect", a.arch>>}
           /\ expected \in {"native", "foreign"} =>
                 /\ ~b.mount_crossdirect
                 /\ b.path_prefix \subseteq {<<"/usr/lib/ccache">>}

\* a foreign-arch recipe with _mode cross was built with crosscompile
\* disabled and fell through to crossdirect
C14_Witness ==
    /\ build_setup # NoSetup
    /\ build_args.host # build_args.arch
    /\ build_args.mode = {"cross"}
    /\ ~build_args.enable_crosscompile
    /\ strategy(build_setup) = "crossdirect"

(***************************************************************************)
(* Package version comparison: distro/version.py                           *)
(***************************************************************************)
\* the characters of the version strings, in code point order
VerChars == <<".", "1", "a">>
isdigit(c) == c = "1"
isalpha(c) == c = "a"
isalnum(c) == isdigit(c) \/ isalpha(c)
ord(c) == CHOOSE i \in DOMAIN VerChars : VerChars[i] = c

\* the well-formed version strings without epoch and release (parseEVR finds
\* no ':' and no '-' in them): segments of digits and letters, separated by
\* single dots
VerStrings ==
    {s \in UNION {[1..n -> {VerChars[i] : i \in DOMAIN VerChars}] : n \in 1..MaxVerLen} :
        /\ isalnum(s[1]) /\ isalnum(s[Len(s)])
        /\ \A i \in 1..(Len(s) - 1) : isalnum(s[i]) \/ isalnum(s[i + 1])}

\* parseEVR of a string that holds neither ':' nor '-'
parseEVR(input) == [epoch |-> 0, version |-> input, release |-> 1, subrelease |-> 0]

VerComp == [RIGHT_NEWER |-> -1, EQUAL |-> 0, RIGHT_OLDER |-> 1]
returns(v) == [raised |-> FALSE, v |-> v]
IndexError == [raised |-> TRUE, v |-> 0]

int_compare(a, b) == IF b > a THEN VerComp.RIGHT_NEWER
                     ELSE IF a > b THEN VerComp.RIGHT_OLDER ELSE VerComp.EQUAL

\* x > y of two Python strings
RECURSIVE str_gt(_, _)
str_gt(x, y) ==
    IF x = <<>> THEN FALSE
    ELSE IF y = <<>> THEN TRUE
    ELSE IF Head(x) # Head(y) THEN ord(Head(x)) > ord(Head(y))
    ELSE str_gt(Tail(x), Tail(y))

\* "while valid and not s[i].isalnum(): i += 1"; indices count from 0
RECURSIVE skip_separators(_, _)
skip_separators(s, i) ==
    IF i < Len(s) /\ ~isalnum(s[i + 1]) THEN skip_separators(s, i + 1) ELSE i

\* "while is_valid(offset, s) and str_function(s[offset]): offset += 1"
RECURSIVE segment_end(_, _, _)
segment_end(s, i, is_num) ==
    IF i < Len(s) /\ (IF is_num THEN isdigit(s[i + 1]) ELSE isalpha(s[i + 1]))
    THEN segment_end(s, i + 1, is_num) ELSE i

\* lines 148-161: after the loop
final_showdown(a, b, one, two) ==
    IF ~(one < Len(a)) /\ ~(two < Len(b)) THEN returns(VerComp.EQUAL)
    ELSE IF ~(one < Len(a)) THEN IndexError
    ELSE IF isalpha(a[one + 1]) THEN returns(VerComp.RIGHT_NEWER)
    ELSE returns(VerComp.RIGHT_OLDER)

\* lines 85-146: the loop over the segments
RECURSIVE compare_segments(_, _, _, _, _, _)
compare_segments(a, b, one0, two0, offset1, offset2) ==
    IF ~(one0 < Len(a) /\ two0 < Len(b)) THEN final_showdown(a, b, one0, two0)
    ELSE LET one == skip_separators(a, one0)
             two == skip_separators(b, two0)
         IN IF ~(one < Len(a) /\ two < Len(b)) THEN final_showdown(a, b, one, two)
            ELSE IF (one - offset1) # (two - offset2)
            THEN returns(IF (one - offset1) < (two - offset2)
                         THEN VerComp.RIGHT_NEWER ELSE VerComp.RIGHT_OLDER)
            ELSE LET is_num == isdigit(a[one + 1])
                     end1 == segment_end(a, one, is_num)
                     end2 == segment_end(b, two, is_num)
                     one_cut == SubSeq(a, one + 1, end1)
                     two_cut == SubSeq(b, two + 1, end2)
                 IN IF two = end2
                    THEN returns(IF is_num THEN VerComp.RIGHT_OLDER ELSE VerComp.RIGHT_NEWER)
                    ELSE IF is_num /\ Len(one_cut) # Len(two_cut)
                    THEN returns(IF Len(one_cut) > Len(two_cut)
                                 THEN VerComp.RIGHT_OLDER ELSE VerComp.RIGHT_NEWER)
                    ELSE IF str_gt(two_cut, one_cut) THEN returns(VerComp.RIGHT_NEWER)
                    ELSE IF str_gt(one_cut, two_cut) THEN returns(VerComp.RIGHT_OLDER)
                    ELSE compare_segments(a, b, end1, end2, end1, end2)

\* rpm_version_compare of two strings
rpm_version_compare(a, b) ==
    IF a = b THEN returns(VerComp.EQUAL) ELSE compare_segments(a, b, 0, 0, 0, 0)

\* compare_package_versions: the first unequal result over epoch, version,
\* release and subrelease
compare_package_versions(va, vb) ==
    LET parsed_a == parseEVR(va)
        parsed_b == parseEVR(vb)
        version == rpm_version_compare(parsed_a.version, parsed_b.version)
    IN IF int_compare(parsed_a.epoch, parsed_b.epoch) # VerComp.EQUAL
       THEN returns(int_compare(parsed_a.epoch, parsed_b.epoch))
       ELSE IF version.raised \/ version.v # VerComp.EQUAL THEN version
       ELSE IF int_compare(parsed_a.release, parsed_b.release) # VerComp.EQUAL
       THEN returns(int_compare(parsed_a.release, parsed_b.release))
       ELSE returns(int_compare(parsed_a.subrelease, parsed_b.subrelease))

\* the three strings are compared with themselves and with each other
CompareVersions ==
    /\ ver_call = NoVerCall
    /\ ver_call' = [called |-> TRUE,
                    aa |-> compare_package_versions(ver_a, ver_a),
                    ab |-> compare_package_versions(ver_a, ver_b),
                    ba |-> compare_package_versions(ver_b, ver_a),
                    bc |-> compare_package_versions(ver_b, ver_c),
                    ac |-> compare_package_versions(ver_a, ver_c)]
    /\ UNCHANGED <<ver_a, ver_b, ver_c>>
    /\ UNCHANGED nonVersionVars

InitVersion ==
    /\ ver_a \in VerStrings
    /\ ver_b \in VerStrings
    /\ ver_c \in VerStrings
    /\ ver_call = NoVerCall
    /\ SolverIdle
    /\ ProfileIdle
    /\ DependantsIdle
    /\ ConfigIdle
    /\ FileIdle
    /\ ExecIdle
    /\ ConfIdle
    /\ DiscoverIdle
    /\ QemuIdle
    /\ BuildIdle
    /\ RouterIdle
    /\ depends = [r \in 1..NRecipes |-> {}]
    /\ provides = [r \in Recipes |-> {}]
    /\ replaces = [r \in Recipes |-> {}]
    /\ to_build = {}
    /\ ChrootIdle
    /\ SrcinfoIdle
    /\ FreshIdle

NextVersion == CompareVersions

SpecVersion == InitVersion /\ [][NextVersion]_vars

\* C15: compare_package_versions is a total order on version strings: it
\* never fails, a version compares equal to itself, swapping the arguments
\* negates the result, and the results are transitive.
C15_TotalOrder ==
    ver_call.called =>
        /\ ~ver_call.aa.raised /\ ~ver_call.ab.raised /\ ~ver_call.ba.raised
        /\ ~ver_call.bc.raised /\ ~ver_call.ac.raised
        /\ ver_call.aa.v = VerComp.EQUAL
        /\ ver_call.ab.v = 0 - ver_call.ba.v
        /\ (ver_call.ab.v <= 0 /\ ver_call.bc.v <= 0) =>
              /\ ver_call.ac.v <= 0
              /\ (ver_call.ab.v < 0 \/ ver_call.bc.v < 0) => ver_call.ac.v < 0

\* sanity: the same without the demand that no comparison fails
C15_OrderWhereDefined ==
    (/\ ver_call.called
     /\ ~ver_call.aa.raised /\ ~ver_call.ab.raised /\ ~ver_call.ba.raised
     /\ ~ver_call.bc.raised /\ ~ver_call.ac.raised)
    => /\ ver_call.aa.v = VerComp.EQUAL
       /\ ver_call.ab.v = 0 - ver_call.ba.v
       /\ (ver_call.ab.v <= 0 /\ ver_call.bc.v <= 0) =>
             /\ ver_call.ac.v <= 0
             /\ (ver_call.ab.v < 0 \/ ver_call.bc.v < 0) => ver_call.ac.v < 0

(***************************************************************************)
(* qemu-user enabling: build_enable_qemu_binfmt (packages/build.py) and    *)
(* register (binfmt.py)                                                    *)
(***************************************************************************)
\* binfmt_is_registered: /proc/sys/fs/binfmt_misc/qemu-<arch> exists
binfmt_is_registered(arch, reg) == arch \in reg

\* a registration that does not look whether the handler appeared
binfmt_register_unchecked(arch, reg, write_ok) ==
    IF arch \in reg
    THEN [reg |-> reg, writes |-> 0, raised |-> FALSE]
    ELSE [reg |-> IF write_ok THEN reg \cup {arch} ELSE reg, writes |-> 1,
          raised |-> FALSE]

\* register(arch): nothing when the handler is listed; otherwise one write to
\* binfmt_misc/register, after which the handler must be listed.  write_ok is
\* whether the kernel accepted the line.
binfmt_register(arch, reg, write_ok) ==
    IF binfmt_is_registered(arch, reg)
    THEN [reg |-> reg, writes |-> 0, raised |-> FALSE]
    ELSE LET reg1 == IF write_ok THEN reg \cup {arch} ELSE reg
         IN [reg |-> reg1, writes |-> 1, raised |-> ~binfmt_is_registered(arch, reg1)]

\* a call that trusts the process-wide map alone
build_enable_qemu_binfmt_unverified(arch, lazy, enabled, reg, o) ==
    IF enabled[arch]
    THEN [enabled |-> enabled, reg |-> reg, pkgs |-> "installed", builds |-> 0,
          installs |-> 0, writes |-> 0, raised |-> FALSE]
    ELSE [enabled |-> [enabled EXCEPT ![arch] = TRUE], reg |-> reg \cup {arch},
          pkgs |-> "installed", builds |-> 1, installs |-> 1, writes |-> 1,
          raised |-> FALSE]

\* build_enable_qemu_binfmt(arch, lazy=lazy); o holds whether the package
\* build, the installation and the registration write succeed
build_enable_qemu_binfmt(arch, lazy, enabled, reg, o) ==
    LET nothing == [enabled |-> enabled, reg |-> reg, pkgs |-> qemu_pkgs, builds |-> 0,
                    installs |-> 0, writes |-> 0, raised |-> FALSE]
        built == IF qemu_pkgs = "none" THEN "built" ELSE qemu_pkgs
    IN IF lazy /\ enabled[arch] /\ binfmt_is_registered(arch, reg) THEN nothing
       ELSE IF arch = runtime_arch THEN nothing
       ELSE IF ~o.build_ok THEN [nothing EXCEPT !.builds = 1, !.raised = TRUE]
       ELSE IF ~o.install_ok
       THEN [nothing EXCEPT !.pkgs = built, !.builds = 1, !.installs = 1,
                            !.raised = TRUE]
       ELSE LET r == binfmt_register(arch, reg, o.write_ok)
            IN [enabled |-> IF r.raised THEN enabled ELSE [enabled EXCEPT ![arch] = TRUE],
                reg |-> r.reg, pkgs |-> "installed", builds |-> 1, installs |-> 1,
                writes |-> r.writes, raised |-> r.raised]

QemuOutcomes == [build_ok : BOOLEAN, install_ok : BOOLEAN, write_ok : BOOLEAN]

BuildEnableQemuBinfmt ==
    \E arch \in ArchSet, lazy \in BOOLEAN, o \in QemuOutcomes :
        LET r == build_enable_qemu_binfmt(arch, lazy, qemu_enabled, binfmt_registered, o)
        IN /\ qemu_enabled' = r.enabled
           /\ binfmt_registered' = r.reg
           /\ qemu_pkgs' = r.pkgs
           /\ qemu_call' = [op |-> "enable", arch |-> arch, lazy |-> lazy,
                            builds |-> r.builds, installs |-> r.installs,
                            writes |-> r.writes, raised |-> r.raised]
           /\ UNCHANGED <<setup_pc, setup_arch, setup_qemu_done, chroot_steps>>
           /\ UNCHANGED nonQemuVars

\* unregister(arch), run by anything on the machine: the handler is removed
BinfmtUnregister ==
    \E arch \in binfmt_registered :
        /\ binfmt_registered' = binfmt_registered \ {arch}
        /\ qemu_call' = [NoQemuCall EXCEPT !.op = "unregister", !.arch = arch]
        /\ UNCHANGED <<qemu_enabled, qemu_pkgs>>
        /\ UNCHANGED <<setup_pc, setup_arch, setup_qemu_done, chroot_steps>>
        /\ UNCHANGED nonQemuVars

\* the methods setup_build_chroot calls on the build chroot of the arch, in
\* the order of its body
SetupChrootSteps == <<"mount_packages", "initialize", "write_pacman_conf", "activate",
                      "mount_pacman_cache", "mount_pkgbuilds", "create_user">>

\* setup_build_chroot(arch) is entered: a foreign arch goes through
\* build_enable_qemu_binfmt first
SetupBuildChrootStart ==
    \E arch \in ArchSet :
        /\ setup_pc \in {"idle", "done", "raised"}
        /\ setup_pc' = IF arch # runtime_arch THEN "qemu" ELSE "chroot"
        /\ setup_arch' = arch
        /\ setup_qemu_done' = FALSE
        /\ chroot_steps' = <<>>
        /\ qemu_call' = [NoQemuCall EXCEPT !.op = "setup_build_chroot", !.arch = arch]
        /\ UNCHANGED <<qemu_enabled, binfmt_registered, qemu_pkgs>>
        /\ UNCHANGED nonQemuVars

\* its call build_enable_qemu_binfmt(arch); an exception leaves
\* setup_build_chroot
SetupBuildChrootQemu ==
    \E o \in QemuOutcomes :
        LET r == build_enable_qemu_binfmt(setup_arch, TRUE, qemu_enabled,
                                          binfmt_registered, o)
        IN /\ setup_pc = "qemu"
           /\ qemu_enabled' = r.enabled
           /\ binfmt_registered' = r.reg
           /\ qemu_pkgs' = r.pkgs
           /\ qemu_call' = [op |-> "enable", arch |-> setup_arch, lazy |-> TRUE,
                            builds |-> r.builds, installs |-> r.installs,
                            writes |-> r.writes, raised |-> r.raised]
           /\ setup_qemu_done' = ~r.raised
           /\ setup_pc' = IF r.raised THEN "raised" ELSE "chroot"
           /\ UNCHANGED <<setup_arch, chroot_steps>>
           /\ UNCHANGED nonQemuVars

\* the next method called on the chroot of the arch
SetupBuildChrootStep ==
    /\ setup_pc = "chroot"
    /\ chroot_steps' = Append(chroot_steps, SetupChrootSteps[Len(chroot_steps) + 1])
    /\ setup_pc' = IF Len(chroot_steps) + 1 = Len(SetupChrootSteps) THEN "done"
                   ELSE "chroot"
    /\ qemu_call' = [NoQemuCall EXCEPT !.op = SetupChrootSteps[Len(chroot_steps) + 1],
                                       !.arch = setup_arch]
    /\ UNCHANGED <<qemu_enabled, binfmt_registered, qemu_pkgs, setup_arch,
                   setup_qemu_done>>
    /\ UNCHANGED nonQemuVars

\* a new process: _qemu_enabled is all False, the kernel lists any handlers
InitQemu ==
    /\ qemu_enabled = [a \in ArchSet |-> FALSE]
    /\ binfmt_registered \in SUBSET ArchSet
    /\ qemu_pkgs \in {"none", "built", "installed"}
    /\ qemu_call = NoQemuCall
    /\ setup_pc = "idle"
    /\ setup_arch = ""
    /\ setup_qemu_done = FALSE
    /\ chroot_steps = <<>>
    /\ SolverIdle
    /\ ProfileIdle
    /\ DependantsIdle
    /\ ConfigIdle
    /\ FileIdle
    /\ ExecIdle
    /\ ConfIdle
    /\ DiscoverIdle
    /\ VersionIdle
    /\ BuildIdle
    /\ RouterIdle
    /\ depends = [r \in 1..NRecipes |-> {}]
    /\ provides = [r \in Recipes |-> {}]
    /\ replaces = [r \in Recipes |-> {}]
    /\ to_build = {}
    /\ ChrootIdle
    /\ SrcinfoIdle
    /\ FreshIdle

NextQemu ==
    \/ BuildEnableQemuBinfmt
    \/ BinfmtUnregister
    \/ SetupBuildChrootStart
    \/ SetupBuildChrootQemu
    \/ SetupBuildChrootStep

SpecQemu == InitQemu /\ [][NextQemu]_vars

\* C21: a call for the host architecture builds, installs and writes nothing
\* and changes nothing; a call with lazy at its default for a foreign arch
\* that an earlier call of the process completed for builds, installs and
\* writes nothing while the kernel lists the handler of the arch.
C21_HostNoopAndIdempotent ==
    [][(qemu_call'.op = "enable" /\ qemu_call'.lazy)
       => /\ qemu_call'.arch = runtime_arch
             => /\ qemu_call'.builds = 0 /\ qemu_call'.installs = 0
                /\ qemu_call'.writes = 0 /\ ~qemu_call'.raised
                /\ UNCHANGED <<qemu_enabled, binfmt_registered, qemu_pkgs>>
          /\ (/\ qemu_enabled[qemu_call'.arch]
              /\ qemu_call'.arch \in binfmt_registered)
             => /\ qemu_call'.builds = 0 /\ qemu_call'.installs = 0
                /\ qemu_call'.writes = 0 /\ ~qemu_call'.raised]_vars

\* a repeated call for an enabled foreign arch did nothing
C21_Witness ==
    /\ qemu_call.op = "enable"
    /\ qemu_call.lazy
    /\ qemu_call.arch # runtime_arch
    /\ qemu_enabled[qemu_call.arch]
    /\ qemu_call.arch \in binfmt_registered
    /\ qemu_call.builds = 0

\* C35: setup_build_chroot for a foreign arch calls no method on the chroot of
\* the arch before its build_enable_qemu_binfmt call has returned, and that
\* call returns normally only when the kernel lists the handler of the arch
\* at its return.
C35_QemuBeforeChroot ==
    [][/\ (chroot_steps' # chroot_steps /\ chroot_steps' # <<>>
            /\ setup_arch # runtime_arch) => setup_qemu_done
       /\ (setup_pc = "qemu" /\ setup_pc' = "chroot")
            => (setup_qemu_done' /\ setup_arch \in binfmt_registered')]_vars

\* the chroot of a foreign arch was initialized and activated after the call
C35_Witness ==
    /\ setup_arch # runtime_arch /\ setup_arch # ""
    /\ Len(chroot_steps) >= 4
    /\ qemu_call.op = "activate"
    /\ setup_qemu_done
    /\ setup_arch \in binfmt_registered

(***************************************************************************)
(* Recipe discovery: parse_pkgbuild, get_pkgbuild_by_path and              *)
(* discover_pkgbuilds (packages/pkgbuild.py).  Each directory holds one    *)
(* recipe, named like the directory.                                       *)
(***************************************************************************)
Dirs == 1..NDirs
DirStates == {"ok", "no_mode", "bad_mode", "version_mismatch"}

\* parse_pkgbuild raises for a _mode other than host or cross (a missing one
\* is a warning) and for a subpackage whose version differs from the base's
parse_pkgbuild_raises(dir) == pkgbuild_dirs[dir] \in {"bad_mode", "version_mismatch"}

\* get_pkgbuild_by_path: a directory already in _pkgbuilds_paths is answered
\* from there when lazy, anything else is parsed
get_pkgbuild_by_path_raises(dir, lazy, paths) ==
    ~(lazy /\ dir \in paths) /\ parse_pkgbuild_raises(dir)

\* the directories in the order os.listdir gave them
DirOrders == {[i \in 1..NDirs |-> i], [i \in 1..NDirs |-> NDirs + 1 - i]}

\* the directories of order before the first one that fails to parse
RECURSIVE parsed_before_failure(_, _, _)
parsed_before_failure(order, lazy, paths) ==
    IF order = <<>> \/ get_pkgbuild_by_path_raises(Head(order), lazy, paths) THEN {}
    ELSE {Head(order)} \cup parsed_before_failure(Tail(order), lazy, paths)

\* a discovery that leaves out the directories that fail to parse
discover_pkgbuilds_skipping(parallel, lazy, order, done) ==
    LET good == {d \in Dirs : ~get_pkgbuild_by_path_raises(d, lazy, pkgbuilds_paths)}
    IN [raised |-> FALSE, packages |-> good, paths |-> good, cache |-> good,
        scanned |-> TRUE]

\* discover_pkgbuilds(parallel, lazy, repositories=None).  order is the order
\* of the directories; done is, for a parallel run that fails, the set of
\* directories the worker threads parsed before the failure was raised.
discover_pkgbuilds(parallel, lazy, order, done) ==
    IF lazy /\ pkgbuilds_scanned
    THEN [raised |-> FALSE, packages |-> pkgbuilds_cache, paths |-> pkgbuilds_paths,
          cache |-> pkgbuilds_cache, scanned |-> TRUE]
    ELSE LET failing == {d \in Dirs : get_pkgbuild_by_path_raises(d, lazy, pkgbuilds_paths)}
         IN IF failing = {}
            THEN [raised |-> FALSE, packages |-> Dirs, paths |-> Dirs, cache |-> Dirs,
                  scanned |-> TRUE]
            ELSE IF parallel
            THEN \* the exception of a worker is raised from Parallel(...)
                 [raised |-> TRUE, packages |-> {},
                  paths |-> pkgbuilds_paths \cup (done \ failing),
                  cache |-> pkgbuilds_cache \cup (done \ failing),
                  scanned |-> pkgbuilds_scanned]
            ELSE \* _pkgbuilds_paths is cleared before the generator is consumed
                 LET parsed == parsed_before_failure(order, lazy, {})
                 IN [raised |-> TRUE, packages |-> {}, paths |-> parsed,
                     cache |-> pkgbuilds_cache \cup parsed,
                     scanned |-> pkgbuilds_scanned]

DiscoverPkgbuilds ==
    \E parallel \in BOOLEAN, lazy \in BOOLEAN, order \in DirOrders, done \in SUBSET Dirs :
        LET r == discover_pkgbuilds(parallel, lazy, order, done)
        IN /\ pkgbuilds_paths' = r.paths
           /\ pkgbuilds_cache' = r.cache
           /\ pkgbuilds_scanned' = r.scanned
           /\ disc_call' = [op |-> "discover", parallel |-> parallel, lazy |-> lazy,
                            raised |-> r.raised, packages |-> r.packages]
           /\ UNCHANGED <<pkgbuild_dirs, disc_pc, disc_lazy, worker_pc>>
           /\ UNCHANGED nonDiscoverVars

\* a new process over a tree of NDirs recipe directories
InitDiscover ==
    /\ pkgbuild_dirs \in [Dirs -> DirStates]
    /\ pkgbuilds_paths = {}
    /\ pkgbuilds_cache = {}
    /\ pkgbuilds_scanned = FALSE
    /\ disc_pc = "idle"
    /\ disc_lazy = FALSE
    /\ worker_pc = [d \in Dirs |-> "none"]
    /\ disc_call = NoDiscCall
    /\ SolverIdle
    /\ ProfileIdle
    /\ DependantsIdle
    /\ ConfigIdle
    /\ FileIdle
    /\ ExecIdle
    /\ ConfIdle
    /\ VersionIdle
    /\ QemuIdle
    /\ BuildIdle
    /\ RouterIdle
    /\ depends = [r \in 1..NRecipes |-> {}]
    /\ provides = [r \in Recipes |-> {}]
    /\ replaces = [r \in Recipes |-> {}]
    /\ to_build = {}
    /\ ChrootIdle
    /\ SrcinfoIdle
    /\ FreshIdle

NextDiscover == DiscoverPkgbuilds

SpecDiscover == InitDiscover /\ [][NextDiscover]_vars

\* C23: a discovery over a tree with a malformed recipe does not raise and
\* returns an index that holds every well-formed recipe of the tree.
C23_MalformedRecipeIsSkipped ==
    [][disc_call'.op = "discover"
       => /\ ~disc_call'.raised
          /\ \A d \in Dirs :
                pkgbuild_dirs[d] \in {"ok", "no_mode"} => d \in disc_call'.packages]_vars

(***************************************************************************)
(* A parallel discover_pkgbuilds step by step: the call queues one         *)
(* get_pkgbuild_by_path per directory on worker threads, the threads run   *)
(* in any order, and the caller goes on when all of them have ended.       *)
(***************************************************************************)
\* get_pkgbuild_by_path: unless the directory is answered from
\* _pkgbuilds_paths, it is parsed and the result stored in _pkgbuilds_paths
\* and _pkgbuilds_cache before it is returned
get_pkgbuild_by_path(dir, lazy, paths, cache) ==
    IF lazy /\ dir \in paths THEN [raised |-> FALSE, paths |-> paths, cache |-> cache]
    ELSE IF parse_pkgbuild_raises(dir) THEN [raised |-> TRUE, paths |-> paths, cache |-> cache]
    ELSE [raised |-> FALSE, paths |-> paths \cup {dir}, cache |-> cache \cup {dir}]

\* lines 450-467: discover_pkgbuilds(parallel=True) hands the directories to
\* the thread pool
ParallelStart ==
    /\ disc_pc = "idle"
    /\ \E lazy \in BOOLEAN :
        /\ ~(lazy /\ pkgbuilds_scanned)
        /\ disc_lazy' = lazy
    /\ disc_pc' = "workers"
    /\ worker_pc' = [d \in Dirs |-> "queued"]
    /\ disc_call' = NoDiscCall
    /\ UNCHANGED <<pkgbuild_dirs, pkgbuilds_paths, pkgbuilds_cache, pkgbuilds_scanned>>
    /\ UNCHANGED nonDiscoverVars

\* one worker thread runs get_pkgbuild_by_path for its directory
WorkerRun ==
    /\ disc_pc = "workers"
    /\ \E d \in Dirs :
        /\ worker_pc[d] = "queued"
        /\ LET r == get_pkgbuild_by_path(d, disc_lazy, pkgbuilds_paths, pkgbuilds_cache)
           IN /\ pkgbuilds_paths' = r.paths
              /\ pkgbuilds_cache' = r.cache
              /\ worker_pc' = [worker_pc EXCEPT ![d] = IF r.raised THEN "failed" ELSE "done"]
    /\ UNCHANGED <<pkgbuild_dirs, pkgbuilds_scanned, disc_pc, disc_lazy, disc_call>>
    /\ UNCHANGED nonDiscoverVars

\* lines 471-506: every worker has ended; the exception of a failed worker
\* is raised from Parallel(...), otherwise the caller fills the index
ParallelCollect ==
    /\ disc_pc = "workers"
    /\ \A d \in Dirs : worker_pc[d] \in {"done", "failed"}
    /\ IF \E d \in Dirs : worker_pc[d] = "failed"
       THEN /\ disc_call' = [op |-> "discover", parallel |-> TRUE, lazy |-> disc_lazy,
                             raised |-> TRUE, packages |-> {}]
            /\ UNCHANGED <<pkgbuilds_paths, pkgbuilds_cache, pkgbuilds_scanned>>
       ELSE /\ pkgbuilds_paths' = Dirs
            /\ pkgbuilds_cache' = Dirs
            /\ pkgbuilds_scanned' = TRUE
            /\ disc_call' = [op |-> "discover", parallel |-> TRUE, lazy |-> disc_lazy,
                             raised |-> FALSE, packages |-> Dirs]
    /\ disc_pc' = "idle"
    /\ worker_pc' = [d \in Dirs |-> "none"]
    /\ UNCHANGED <<pkgbuild_dirs, disc_lazy>>
    /\ UNCHANGED nonDiscoverVars

NextWorkers == ParallelStart \/ WorkerRun \/ ParallelCollect

SpecWorkers == InitDiscover /\ [][NextWorkers]_vars

\* C33: while the workers of a parallel discovery run, _pkgbuilds_paths and
\* _pkgbuilds_cache are not written: they change only once every worker
\* has ended.
C33_WorkersLeaveCachesAlone ==
    [][(disc_pc = "workers" /\ \E d \in Dirs : worker_pc[d] = "queued")
       => (pkgbuilds_paths' = pkgbuilds_paths /\ pkgbuilds_cache' = pkgbuilds_cache)]_vars

(***************************************************************************)
(* pacman configuration: Distro.repos_config_snippet and get_pacman_conf   *)
(* (distro/distro.py).  A text is modelled as the list of its sections.    *)
(***************************************************************************)
RepoNames == {"core", "extra", "main"}

\* the key orders of a dict with at most MaxRepos of the repo names
RepoLists ==
    {q \in UNION {[1..n -> RepoNames] : n \in 0..MaxRepos} :
        \A i, j \in DOMAIN q : i # j => q[i] # q[j]}

\* Repo.config_snippet: the section "[name]" with its Server line
config_snippet(name) == [section |-> name]

\* generate_pacman_conf_body: the [options] section
generate_pacman_conf_body == <<[section |-> "options"]>>

\* a snippet that lists the extra repos after the distro's own
repos_config_snippet_appending(own, extras) ==
    [i \in 1..Len(own \o extras) |-> config_snippet((own \o extras)[i])]

\* repos_config_snippet: extras + list(self.repos.values())
repos_config_snippet(own, extras) ==
    [i \in 1..Len(extras \o own) |-> config_snippet((extras \o own)[i])]

get_pacman_conf(own, extras) ==
    generate_pacman_conf_body \o repos_config_snippet(own, extras)

GetPacmanConf ==
    /\ conf_text' = get_pacman_conf(distro_repos, extra_repos)
    /\ UNCHANGED <<distro_repos, extra_repos>>
    /\ UNCHANGED nonConfVars

InitConf ==
    /\ distro_repos \in RepoLists
    /\ extra_repos \in RepoLists
    /\ conf_text = <<>>
    /\ SolverIdle
    /\ ProfileIdle
    /\ DependantsIdle
    /\ ConfigIdle
    /\ FileIdle
    /\ ExecIdle
    /\ VersionIdle
    /\ DiscoverIdle
    /\ QemuIdle
    /\ BuildIdle
    /\ RouterIdle
    /\ depends = [r \in 1..NRecipes |-> {}]
    /\ provides = [r \in Recipes |-> {}]
    /\ replaces = [r \in Recipes |-> {}]
    /\ to_build = {}
    /\ ChrootIdle
    /\ SrcinfoIdle
    /\ FreshIdle

NextConf == GetPacmanConf

SpecConf == InitConf /\ [][NextConf]_vars

\* the section names of a text after its [options] section
repo_sections(text) == [i \in 1..(Len(text) - 1) |-> text[i + 1].section]

\* C24 as stated: the text lists the distro's own channels first, in their
\* order, and the extra repos after them.
C24_ExtrasAppended ==
    conf_text # <<>> => repo_sections(conf_text) = distro_repos \o extra_repos

\* C24 (amended): the text lists the extra repos first, in their order, and
\* the distro's own channels after them, in their configured order.
C24_ExtrasFirst ==
    conf_text # <<>> =>
        /\ conf_text[1].section = "options"
        /\ repo_sections(conf_text) = extra_repos \o distro_repos

\* a text was made from two channels and an extra repo
C24_Witness ==
    /\ conf_text # <<>>
    /\ Len(distro_repos) = 2
    /\ Len(extra_repos) >= 1
    /\ repo_sections(conf_text) = extra_repos \o distro_repos

\* ---------------------------------------------------------------------------
\* Command composition (exec.py, Chroot.run_cmd)
\* ---------------------------------------------------------------------------

\* the accounts of the host: pwd.getpwuid / pwd.getpwnam
Users == {"root", "alice", "nobody"}
pw_uid == [u \in Users |-> IF u = "root" THEN 0 ELSE IF u = "alice" THEN 1000 ELSE 65534]
pw_name(uid) == CHOOSE u \in Users : pw_uid[u] = uid
Uids == {pw_uid[u] : u \in Users}

\* A string of an argv.  A literal is kept as text; a string that
\* flatten_shell_script joined from a list keeps the list, and whether each
\* item was shell-quoted (and so splits back into exactly these items).
Word(s) == [lit |-> s, quoted |-> FALSE, items |-> <<>>]
Joined(items, shell_quote_items) == [lit |-> "", quoted |-> shell_quote_items, items |-> items]

ELEVATION_METHODS == <<Word("sudo"), Word("--")>>

generate_env_cmd(env) == IF env THEN <<Word("/usr/bin/env"), Word("K=V")>> ELSE <<>>

\* a list is joined with spaces, a string is returned as it is
flatten_shell_script(is_list, script, shell_quote_items) ==
    IF is_list THEN Joined(script, shell_quote_items) ELSE script

\* wrap_in_bash(cmd, flatten_result=False)
wrap_in_bash(is_list, cmd) ==
    <<Word("/bin/bash"), Word("-c"), flatten_shell_script(is_list, cmd, FALSE)>>

generate_cmd_elevated(cmd) == ELEVATION_METHODS \o cmd

\* generate_cmd_su without the escalation: su is run as the caller
generate_cmd_su_unelevated(cmd, switch_user, uid) ==
    IF pw_name(uid) # switch_user /\ switch_user # "root"
    THEN <<Word("/bin/su"), Word(switch_user), Word("-s"), Word("/bin/bash"), Word("-c"),
           flatten_shell_script(TRUE, cmd, TRUE)>>
    ELSE cmd

generate_cmd_su(cmd, switch_user, uid) ==
    IF pw_name(uid) # switch_user
    THEN LET su == IF switch_user # "root"
                   THEN <<Word("/bin/su"), Word(switch_user), Word("-s"), Word("/bin/bash"),
                          Word("-c"), flatten_shell_script(TRUE, cmd, TRUE)>>
                   ELSE cmd
         IN  IF uid # 0 THEN generate_cmd_elevated(su) ELSE su
    ELSE cmd

\* the argv run_cmd hands to subprocess; switch_user "" is None
run_cmd(is_list, script, env, switch_user, uid) ==
    LET flat == flatten_shell_script(is_list, script, FALSE)
        cmd == generate_env_cmd(env) \o wrap_in_bash(FALSE, flat)
    IN  IF switch_user # "" THEN generate_cmd_su(cmd, switch_user, uid) ELSE cmd

run_root_cmd(is_list, script, env, uid) == run_cmd(is_list, script, env, "root", uid)

\* Chroot.run_cmd of an active chroot with switch_user None
chroot_run_cmd(is_list, script, inner_env, outer_env, cwd, uid) ==
    LET flat == flatten_shell_script(is_list, script, FALSE)
        in_cwd == IF cwd
                  THEN Joined(<<Word("cd"), Word("/build"), Word("&&"), Word("("), flat, Word(")")>>, FALSE)
                  ELSE flat
        inner_cmd == wrap_in_bash(FALSE, in_cwd)
        cmd == flatten_shell_script(TRUE, <<Word("chroot"), Word("/chroot")>> \o generate_env_cmd(inner_env) \o inner_cmd, TRUE)
    IN  run_root_cmd(FALSE, cmd, outer_env, uid)

\* the scripts callers pass: a string, or a list of words
Scripts == {[is_list |-> FALSE, script |-> Word("id -u")],
            [is_list |-> TRUE, script |-> <<Word("id"), Word("-u")>>]}

GenerateCmdSu ==
    \E switch_user \in Users :
        /\ exec_call' = [op |-> "generate_cmd_su", switch_user |-> switch_user,
                         cmd |-> <<Word("id"), Word("-u")>>,
                         argv |-> generate_cmd_su(<<Word("id"), Word("-u")>>, switch_user, current_uid)]
        /\ UNCHANGED current_uid
        /\ UNCHANGED nonExecVars

RunCmd ==
    \E s \in Scripts, env \in BOOLEAN, switch_user \in Users \cup {""} :
        /\ exec_call' = [op |-> "run_cmd", switch_user |-> switch_user,
                         cmd |-> run_cmd(s.is_list, s.script, env, "", current_uid),
                         argv |-> run_cmd(s.is_list, s.script, env, switch_user, current_uid)]
        /\ UNCHANGED current_uid
        /\ UNCHANGED nonExecVars

RunRootCmd ==
    \E s \in Scripts, env \in BOOLEAN :
        /\ exec_call' = [op |-> "run_cmd", switch_user |-> "root",
                         cmd |-> run_cmd(s.is_list, s.script, env, "", current_uid),
                         argv |-> run_root_cmd(s.is_list, s.script, env, current_uid)]
        /\ UNCHANGED current_uid
        /\ UNCHANGED nonExecVars

ChrootRunCmd ==
    \E s \in Scripts, inner_env \in BOOLEAN, outer_env \in BOOLEAN, cwd \in BOOLEAN :
        /\ exec_call' = [op |-> "chroot_run_cmd", switch_user |-> "root", cmd |-> <<>>,
                         argv |-> chroot_run_cmd(s.is_list, s.script, inner_env, outer_env, cwd, current_uid)]
        /\ UNCHANGED current_uid
        /\ UNCHANGED nonExecVars

InitExec ==
    /\ current_uid \in Uids
    /\ exec_call = NoExecCall
    /\ SolverIdle
    /\ ProfileIdle
    /\ DependantsIdle
    /\ ConfigIdle
    /\ FileIdle
    /\ VersionIdle
    /\ ConfIdle
    /\ DiscoverIdle
    /\ QemuIdle
    /\ BuildIdle
    /\ RouterIdle
    /\ depends = [r \in 1..NRecipes |-> {}]
    /\ provides = [r \in Recipes |-> {}]
    /\ replaces = [r \in Recipes |-> {}]
    /\ to_build = {}
    /\ ChrootIdle
    /\ SrcinfoIdle
    /\ FreshIdle

NextExec == GenerateCmdSu \/ RunCmd \/ RunRootCmd \/ ChrootRunCmd

SpecExec == InitExec /\ [][NextExec]_vars

\* The uid the innermost command of an argv runs with when a process of `uid`
\* executes it: sudo runs the rest as root, su switches to the named user when
\* run by root and fails (-1) otherwise, env, chroot and a shell that is handed
\* a quoted command line run that command line as the same user.
RECURSIVE run_uid(_, _)
run_uid(argv, uid) ==
    IF argv = <<>> THEN uid
    ELSE IF argv[1].lit = "sudo" THEN run_uid(SubSeq(argv, 3, Len(argv)), 0)
    ELSE IF argv[1].lit = "/bin/su"
         THEN IF uid = 0 THEN run_uid(SubSeq(argv, 4, Len(argv)), pw_uid[argv[2].lit]) ELSE -1
    ELSE IF argv[1].lit \in {"/usr/bin/env", "chroot"} THEN run_uid(SubSeq(argv, 3, Len(argv)), uid)
    ELSE IF argv[1].lit = "/bin/bash" /\ argv[3].quoted THEN run_uid(argv[3].items, uid)
    ELSE uid

has_su(argv) == \E i \in DOMAIN argv : argv[i].lit = "/bin/su"
is_elevated(argv) == Len(argv) >= 2 /\ argv[1].lit = "sudo" /\ argv[2].lit = "--"
su_calls == {c \in {exec_call} : c.op \in {"generate_cmd_su", "run_cmd"} /\ c.switch_user # ""}

\* C25 as stated: the command runs with the target's uid, the argv is unchanged
\* when the target is the caller, wrapped in a user switch whenever the target
\* differs from the caller, and, for a caller that is not root and not the
\* target, escalated outermost with the user switch inside.
C25_SwitchWheneverTargetDiffers ==
    \A c \in su_calls :
        /\ run_uid(c.argv, current_uid) = pw_uid[c.switch_user]
        /\ c.switch_user = pw_name(current_uid) => c.argv = c.cmd
        /\ c.switch_user # pw_name(current_uid) => has_su(c.argv)
        /\ (c.switch_user # pw_name(current_uid) /\ current_uid # 0) =>
               (is_elevated(c.argv) /\ has_su(SubSeq(c.argv, 3, Len(c.argv))))

\* C25 amended: the command runs with the target's uid; the argv is unchanged
\* when the target is the caller; it is wrapped in su exactly when the target
\* is neither the caller nor root; it is escalated exactly when the target is
\* not the caller and the caller is not root, and the escalation is then the
\* outermost layer, with su (if any) inside it.
C25_RunsAsTarget ==
    \A c \in su_calls :
        LET differs == c.switch_user # pw_name(current_uid)
            inner == IF is_elevated(c.argv) THEN SubSeq(c.argv, 3, Len(c.argv)) ELSE c.argv
        IN  /\ run_uid(c.argv, current_uid) = pw_uid[c.switch_user]
            /\ ~differs => c.argv = c.cmd
            /\ has_su(c.argv) <=> (differs /\ c.switch_user # "root")
            /\ is_elevated(c.argv) <=> (differs /\ current_uid # 0)
            /\ has_su(c.argv) => (inner[1].lit = "/bin/su" /\ inner[6] = Joined(c.cmd, TRUE))
            /\ ~has_su(c.argv) => inner = c.cmd

C25_Witness ==
    /\ exec_call.op = "generate_cmd_su"
    /\ exec_call.switch_user = "nobody"
    /\ current_uid = 1000
    /\ is_elevated(exec_call.argv)
    /\ has_su(exec_call.argv)

C25_WitnessRoot ==
    /\ exec_call.op = "run_cmd"
    /\ exec_call.switch_user = "root"
    /\ current_uid = 1000
    /\ ~has_su(exec_call.argv)

\* the positions of the argv where a `/bin/bash -c` starts
bash_c(argv) == {i \in 1..(Len(argv) - 2) : argv[i].lit = "/bin/bash" /\ argv[i + 1].lit = "-c"}
\* the string a shell is handed is itself a `/bin/bash -c` command line
starts_bash_c(w) == Len(w.items) >= 2 /\ w.items[1].lit = "/bin/bash" /\ w.items[2].lit = "-c"

\* C26: the argv run_cmd or Chroot.run_cmd executes holds exactly one
\* `bash -c`, and the string handed to that shell does not start another one.
C26_OneShell ==
    exec_call.op \in {"run_cmd", "chroot_run_cmd"} =>
        /\ Cardinality(bash_c(exec_call.argv)) = 1
        /\ \A i \in bash_c(exec_call.argv) : ~starts_bash_c(exec_call.argv[i + 2])

\* ---------------------------------------------------------------------------
\* Ownership-preserving file writes (exec/file.py)
\* ---------------------------------------------------------------------------

\* file modes as write_file is given them; "rw" is not numeric
FileModes == {"644", "600"}
ModeArgs == {"", "600", "rw"}

\* the files the path can hold before a call
FileStates ==
    {[parent_ok |-> p, exists |-> FALSE, content |-> "", owner |-> "", group |-> "", mode |-> ""] : p \in BOOLEAN}
    \cup {[parent_ok |-> TRUE, exists |-> TRUE, content |-> "old", owner |-> u, group |-> g, mode |-> m] :
             u \in {"root", "nobody"}, g \in {"root", "nobody"}, m \in FileModes}

\* os.open(path) is called without its required flags argument: the TypeError
\* is caught and returned, and the file is left as it was
try_native_filewrite(f, content, chmod_mode) == [failed |-> TRUE, file |-> f]

\* the elevated `tee path >/dev/null`: truncates an existing file in place,
\* creates a missing one as root
elevated_tee(f, content) ==
    IF f.exists THEN [f EXCEPT !.content = content]
    ELSE [f EXCEPT !.exists = TRUE, !.content = content, !.owner = "root", !.group = "root", !.mode = "644"]

\* chown(path, user, group): nothing is run when neither is given
chown(f, user, group) ==
    [f EXCEPT !.owner = IF user # "" THEN user ELSE @, !.group = IF group # "" THEN group ELSE @]

\* write_file's owner argument as passed through unchanged
chown_target_as_requested(exists, requested, own) == requested

\* the owner (or group) write_file hands to chown: the requested one, else the
\* caller's own for a file that did not exist, else none
chown_target(exists, requested, own) ==
    IF requested # "" THEN requested ELSE IF exists THEN "" ELSE own

WriteOutcomes == [stat_ok : BOOLEAN, tee_ok : BOOLEAN, chmod_ok : BOOLEAN, chown_ok : BOOLEAN]

\* write_file(path, content, mode, user, group) called by uid; "" is None
write_file(f, uid, content, mode, user, group, o) ==
    LET chown_user == chown_target(f.exists, user, pw_name(uid))
        chown_group == chown_target(f.exists, group, pw_name(uid))
        stat_failed == f.exists /\ ~o.stat_ok
        chmod_mode == IF mode # "" /\ (~f.exists \/ stat_failed \/ mode # f.mode) THEN mode ELSE ""
        native == IF stat_failed THEN [failed |-> TRUE, file |-> f]
                  ELSE try_native_filewrite(f, content, chmod_mode)
        elevated == f.exists \/ native.failed
        teed == IF native.failed THEN elevated_tee(native.file, content) ELSE native.file
        chmodded == IF elevated /\ chmod_mode # "" THEN [teed EXCEPT !.mode = chmod_mode] ELSE teed
        s1 == IF native.failed THEN <<"tee">> ELSE <<"write">>
        s2 == IF elevated /\ chmod_mode # "" THEN Append(s1, "chmod") ELSE s1
        chowns == chown_user # "" \/ chown_group # ""
    IN  IF ~f.exists /\ ~f.parent_ok THEN [file |-> f, steps |-> <<>>, raised |-> TRUE]
        ELSE IF mode # "" /\ mode \notin FileModes THEN [file |-> f, steps |-> <<>>, raised |-> TRUE]
        ELSE IF native.failed /\ ~o.tee_ok THEN [file |-> native.file, steps |-> <<>>, raised |-> TRUE]
        ELSE IF elevated /\ chmod_mode # "" /\ ~o.chmod_ok THEN [file |-> teed, steps |-> s1, raised |-> TRUE]
        ELSE IF chowns /\ ~o.chown_ok THEN [file |-> chmodded, steps |-> s2, raised |-> TRUE]
        ELSE IF chowns THEN [file |-> chown(chmodded, chown_user, chown_group),
                             steps |-> Append(s2, "chown"), raised |-> FALSE]
        ELSE [file |-> chmodded, steps |-> s2, raised |-> FALSE]

WriteFile ==
    \E mode \in ModeArgs, user \in {"", "root", "nobody"}, group \in {"", "nobody"}, o \in WriteOutcomes :
        LET r == write_file(fs_file, current_uid, "new", mode, user, group, o)
        IN  /\ fs_file' = r.file
            /\ wf_call' = [op |-> "write_file", content |-> "new", mode |-> mode, user |-> user,
                           group |-> group, before |-> fs_file, steps |-> r.steps, raised |-> r.raised]
            /\ UNCHANGED nonFileVars

\* root_write_file: write_file with user and group root
RootWriteFile ==
    \E mode \in ModeArgs, o \in WriteOutcomes :
        LET r == write_file(fs_file, current_uid, "new", mode, "root", "root", o)
        IN  /\ fs_file' = r.file
            /\ wf_call' = [op |-> "write_file", content |-> "new", mode |-> mode, user |-> "root",
                           group |-> "root", before |-> fs_file, steps |-> r.steps, raised |-> r.raised]
            /\ UNCHANGED nonFileVars

InitFile ==
    /\ fs_file \in FileStates
    /\ wf_call = NoWfCall
    /\ SolverIdle
    /\ ProfileIdle
    /\ DependantsIdle
    /\ ConfigIdle
    /\ VersionIdle
    /\ current_uid \in Uids
    /\ exec_call = NoExecCall
    /\ ConfIdle
    /\ DiscoverIdle
    /\ QemuIdle
    /\ BuildIdle
    /\ RouterIdle
    /\ depends = [r \in 1..NRecipes |-> {}]
    /\ provides = [r \in Recipes |-> {}]
    /\ replaces = [r \in Recipes |-> {}]
    /\ to_build = {}
    /\ ChrootIdle
    /\ SrcinfoIdle
    /\ FreshIdle

NextFile == WriteFile \/ RootWriteFile

SpecFile == InitFile /\ [][NextFile]_vars

\* C27: a write_file that returns on a missing path leaves the file with the
\* given content, owned by the requested user and group, or the caller's own
\* where none is requested; on an existing file without user and group it
\* replaces the content and leaves owner and group as they were, the write
\* going through the elevated tee included; chown is the last step taken.
C27_WriteFileOwnership ==
    (wf_call.op = "write_file" /\ ~wf_call.raised) =>
        /\ fs_file.exists /\ fs_file.content = wf_call.content
        /\ ~wf_call.before.exists =>
               /\ fs_file.owner = (IF wf_call.user # "" THEN wf_call.user ELSE pw_name(current_uid))
               /\ fs_file.group = (IF wf_call.group # "" THEN wf_call.group ELSE pw_name(current_uid))
        /\ (wf_call.before.exists /\ wf_call.user = "" /\ wf_call.group = "") =>
               /\ fs_file.owner = wf_call.before.owner
               /\ fs_file.group = wf_call.before.group
        /\ \A i \in DOMAIN wf_call.steps :
               wf_call.steps[i] = "chown" => i = Len(wf_call.steps)

C27_Witness ==
    /\ wf_call.op = "write_file"
    /\ ~wf_call.raised
    /\ ~wf_call.before.exists
    /\ wf_call.user = ""
    /\ current_uid = 1000
    /\ fs_file.owner = "alice"
    /\ wf_call.steps = <<"tee", "chmod", "chown">>

C27_WitnessExisting ==
    /\ wf_call.op = "write_file"
    /\ ~wf_call.raised
    /\ wf_call.before.exists
    /\ wf_call.before.owner = "root"
    /\ wf_call.user = "" /\ wf_call.group = ""
    /\ current_uid = 1000
    /\ wf_call.steps = <<"tee">>
    /\ fs_file.content = "new"

\* ---------------------------------------------------------------------------
\* Config load state (config/state.py)
\* ---------------------------------------------------------------------------

ConfPaths == 1..NConfPaths

\* a config file is absent, is not TOML, holds unknown keys, or is valid
DiskStates == {"missing", "malformed", "invalid", "valid"}

\* the exception parse_file and Config.fromDict(validate=True) end with
parse_file(disk) ==
    CASE disk = "missing" -> "FileNotFoundError"
      [] disk = "malformed" -> "TomlDecodeError"
      [] disk = "invalid" -> "ConfigParserException"
      [] OTHER -> "none"

\* try_load_file: a failed attempt stores its exception, a successful one
\* stores the parsed config; neither clears an exception stored earlier
try_load_file(fs, disk) ==
    [load_finished |-> TRUE,
     exception |-> IF parse_file(disk) # "none" THEN parse_file(disk) ELSE fs.exception]

is_loaded(fs) == fs.load_finished /\ fs.exception = "none"

\* enforce_config_loaded raises unless a load finished without exception
enforce_config_loaded_raises(fs) == ~fs.load_finished \/ fs.exception # "none"

TryLoadFile ==
    \E p \in ConfPaths :
        /\ runtime_config_file' = p
        /\ profile_cache' = "none"
        /\ file_conf' = IF parse_file(conf_disk[p]) = "none" THEN p ELSE file_conf
        /\ file_state' = try_load_file(file_state, conf_disk[p])
        /\ load_call' = [op |-> "try_load_file", attempted |-> TRUE,
                         parsed |-> parse_file(conf_disk[p]) = "none", result |-> FALSE, raised |-> FALSE]
        /\ UNCHANGED conf_disk
        /\ UNCHANGED nonConfigVars

IsLoaded ==
    /\ load_call' = [load_call EXCEPT !.op = "is_loaded", !.result = is_loaded(file_state), !.raised = FALSE]
    /\ UNCHANGED <<conf_disk, file_state, file_conf, runtime_config_file, profile_cache>>
    /\ UNCHANGED nonConfigVars

EnforceConfigLoaded ==
    /\ load_call' = [load_call EXCEPT !.op = "enforce_config_loaded", !.result = FALSE,
                                      !.raised = enforce_config_loaded_raises(file_state)]
    /\ UNCHANGED <<conf_disk, file_state, file_conf, runtime_config_file, profile_cache>>
    /\ UNCHANGED nonConfigVars

InitConfig ==
    /\ conf_disk \in [ConfPaths -> DiskStates]
    /\ file_state = NoLoadState
    /\ file_conf = 0
    /\ runtime_config_file = 0
    /\ profile_cache = "empty"
    /\ load_call = NoLoadCall
    /\ SolverIdle
    /\ ProfileIdle
    /\ DependantsIdle
    /\ VersionIdle
    /\ FileIdle
    /\ ExecIdle
    /\ ConfIdle
    /\ DiscoverIdle
    /\ QemuIdle
    /\ BuildIdle
    /\ RouterIdle
    /\ depends = [r \in 1..NRecipes |-> {}]
    /\ provides = [r \in Recipes |-> {}]
    /\ replaces = [r \in Recipes |-> {}]
    /\ to_build = {}
    /\ ChrootIdle
    /\ SrcinfoIdle
    /\ FreshIdle

NextConfig == TryLoadFile \/ IsLoaded \/ EnforceConfigLoaded

SpecConfig == InitConfig /\ [][NextConfig]_vars

\* C28: once try_load_file was called, load_finished is true and is_loaded()
\* is true exactly when the most recent attempt parsed its file; a failed
\* attempt raises nothing and leaves is_loaded() false.
C28_LoadedIffLastAttemptParsed ==
    load_call.attempted =>
        /\ file_state.load_finished
        /\ is_loaded(file_state) <=> load_call.parsed
        /\ load_call.op = "try_load_file" => ~load_call.raised

(***************************************************************************)
(* Properties of mounting an already mounted destination                   *)
(***************************************************************************)
\* C29: a Chroot.mount on a destination that is mounted in the kernel and
\* listed in active_mounts raises when fail_if_mounted is set; otherwise it
\* returns without issuing a mount command and leaves active_mounts, the
\* mount table and the registered handlers as they were.
C29_MountedAndListed ==
    [][(/\ last_call'.op = "mount"
        /\ last_call' # last_call
        /\ check_findmnt(kernel_mounts, get_path(last_call'.path))
        /\ last_call'.path \in Range(active_mounts))
       => IF last_call'.fail_if_mounted
          THEN last_call'.raised /\ last_call'.issued = 0 /\ active_mounts' = active_mounts
          ELSE /\ ~last_call'.raised
               /\ last_call'.issued = 0
               /\ active_mounts' = active_mounts
               /\ kernel_mounts' = kernel_mounts
               /\ atexit_handlers' = atexit_handlers]_vars

C29_Witness ==
    /\ last_call.op = "mount"
    /\ ~last_call.fail_if_mounted
    /\ ~last_call.raised
    /\ last_call.issued = 0
    /\ check_findmnt(kernel_mounts, get_path(last_call.path))
    /\ occurrences(active_mounts, last_call.path) = 1

(***************************************************************************)
(* Properties of the entry handle_directory returns                        *)
(***************************************************************************)
\* C30: whichever branch a returning handle_directory took, the entry it
\* returns records the SHA-256 of the PKGBUILD and of the SRCINFO now on
\* disk, and the lines it returns are the content of that SRCINFO.
C30_ReturnedEntryValid ==
    (si_call.op = "handle_directory" /\ ~si_call.raised) =>
        /\ entry_valid(metadata, pkgbuild, srcinfo)
        /\ srcinfo # {}
        /\ si_call.lines = srcinfo

\* an entry that was stale for the files on disk came back valid
C30_Witness ==
    /\ si_call.op = "handle_directory"
    /\ ~si_call.raised
    /\ ~si_call.valid
    /\ ~si_call.force_refresh
    /\ si_call.spawned = 1
    /\ entry_valid(metadata, pkgbuild, srcinfo)

\* a cache hit came back valid without a refresh
C30_WitnessHit ==
    /\ si_call.op = "handle_directory"
    /\ ~si_call.raised
    /\ si_call.valid
    /\ si_call.spawned = 0
    /\ si_call.lines = srcinfo

(***************************************************************************)
(* Reverse dependencies: get_dependants (packages/build.py)                *)
(***************************************************************************)
ArchLists == {{"any"}, {"x86_64"}, {"aarch64"}}

\* the recipes one call adds: those with a dependency on the own name of one
\* of the packages that list the arch or "any"
to_add(packages, arch) ==
    {pkg \in Recipes : /\ packages \cap depends[pkg] # {}
                       /\ {arch, "any"} \cap pkg_arches[pkg] # {}}

\* get_dependants(repo, packages, arch) is entered from outside
GetDependants ==
    \E seeds \in SUBSET Recipes, arch \in ArchSet :
        /\ gd_pc \in {"idle", "done"}
        /\ seeds # {}
        /\ Cardinality(seeds) <= MaxSeeds
        /\ gd_arch' = arch
        /\ gd_seeds' = seeds
        /\ gd_packages' = seeds
        /\ gd_found' = {}
        /\ gd_pc' = "call"
        /\ UNCHANGED pkg_arches
        /\ UNCHANGED nonDependantsVars

\* the body of one call: with recursive at its default True a non-empty to_add
\* is passed to a further call, an empty one ends the recursion, and the
\* returns hand the union of all to_add sets back
GetDependantsCall ==
    LET found == to_add(gd_packages, gd_arch)
    IN /\ gd_pc = "call"
       /\ gd_found' = gd_found \cup found
       /\ IF found # {}
          THEN gd_packages' = found /\ gd_pc' = "call"
          ELSE gd_packages' = gd_packages /\ gd_pc' = "done"
       /\ UNCHANGED <<pkg_arches, gd_arch, gd_seeds>>
       /\ UNCHANGED nonDependantsVars

\* an index of recipes that depend on each other's own names in any way, at
\* most MaxForeign of them for a single arch
InitDependants ==
    /\ depends \in [1..NRecipes -> SUBSET (1..NRecipes)]
    /\ SumOver([r \in Recipes |-> Cardinality(depends[r])], Recipes) <= MaxEdges
    /\ provides = [r \in Recipes |-> {}]
    /\ replaces = [r \in Recipes |-> {}]
    /\ to_build = {}
    /\ pkg_arches \in [Recipes -> ArchLists]
    /\ Cardinality({r \in Recipes : pkg_arches[r] # {"any"}}) <= MaxForeign
    /\ gd_arch = ""
    /\ gd_seeds = {}
    /\ gd_packages = {}
    /\ gd_found = {}
    /\ gd_pc = "idle"
    /\ SolverIdle
    /\ ProfileIdle
    /\ VersionIdle
    /\ ConfigIdle
    /\ FileIdle
    /\ ExecIdle
    /\ ConfIdle
    /\ DiscoverIdle
    /\ QemuIdle
    /\ BuildIdle
    /\ RouterIdle
    /\ ChrootIdle
    /\ SrcinfoIdle
    /\ FreshIdle

NextDependants == GetDependants \/ GetDependantsCall

\* a call, once entered, runs on; a further call with the arguments of the
\* one before that finds nothing new leaves the state as it is
SpecDependantsFair ==
    InitDependants /\ [][NextDependants]_vars /\ WF_vars(GetDependantsCall)

\* the recipes available for the arch that depend on a name of S, directly or
\* through available recipes
RECURSIVE dependants_of(_, _, _)
dependants_of(S, arch, seen) ==
    LET new == to_add(S, arch) \ seen
    IN IF new = {} THEN seen ELSE dependants_of(new, arch, seen \cup new)

\* C37: every call of get_dependants with recursive=True returns, and it
\* returns the recipes available for the arch that depend on a seed directly
\* or transitively.
C37_DependantsTerminates ==
    /\ [](gd_pc = "call" => <>(gd_pc = "done"))
    /\ [](gd_pc = "done" => gd_found = dependants_of(gd_seeds, gd_arch, {}))

(***************************************************************************)
(* Profiles: ConfigStateHolder.get_profile, update, update_profile and     *)
(* try_load_file (config/state.py), resolve_profile (config/profile.py).   *)
(* A profile has the one key arch; 0 is its value in PROFILE_DEFAULTS.     *)
(***************************************************************************)
ProfileNames == {"default", "dev"}
ProfileValues == 0..MaxProfileValue
\* a sparse profile: the key is missing or holds a value
SparseProfiles == [arch : {{}} \cup {{v} : v \in ProfileValues}]
ProfileTables == UNION {[D -> SparseProfiles] : D \in SUBSET ProfileNames}
ProfilesSections == [current : {{}} \cup {{n} : n \in ProfileNames}, profs : ProfileTables]
\* a config fragment: sections that are missing are {}
ConfigFragments == [other : {{}} \cup {{v} : v \in 0..1},
                    profiles : {{}} \cup {{p} : p \in ProfilesSections}]

EmptyCache == [n \in {} |-> {}]

\* f with the value v at the key k
put(f, k, v) == [n \in DOMAIN f \cup {k} |-> IF n = k THEN v ELSE f[n]]

\* resolve_profile without the test for an earlier resolution
RECURSIVE resolve_profile_fresh(_, _, _, _)
resolve_profile_fresh(name, sparse_profiles, resolved, visited_profiles) ==
    IF resolved.raised THEN resolved
    ELSE IF name \in visited_profiles \/ name \notin DOMAIN sparse_profiles
    THEN [resolved EXCEPT !.raised = TRUE]
    ELSE LET sparse == sparse_profiles[name]
             r1 == IF name # "default"
                   THEN resolve_profile_fresh("default", sparse_profiles, resolved,
                                              visited_profiles \cup {name})
                   ELSE resolved
         IN IF r1.raised THEN r1
            ELSE LET full == IF name # "default" /\ sparse.arch = {}
                             THEN r1.map["default"]
                             ELSE IF sparse.arch = {} THEN [arch |-> {0}] ELSE sparse
                 IN [r1 EXCEPT !.map = put(r1.map, name, full)]

\* resolve_profile(name, sparse_profiles, resolved, _visited): a name found in
\* resolved is answered from there; otherwise the parent, "default" for every
\* other profile, is resolved first and the sparse profile laid over it, and
\* a key still missing gets its default
RECURSIVE resolve_profile(_, _, _, _)
resolve_profile(name, sparse_profiles, resolved, visited_profiles) ==
    IF resolved.raised THEN resolved
    ELSE IF name \in visited_profiles THEN [resolved EXCEPT !.raised = TRUE]
    ELSE IF name \in DOMAIN resolved.map THEN resolved
    ELSE IF name \notin DOMAIN sparse_profiles THEN [resolved EXCEPT !.raised = TRUE]
    ELSE LET sparse == sparse_profiles[name]
             r1 == IF name # "default"
                   THEN resolve_profile("default", sparse_profiles, resolved,
                                        visited_profiles \cup {name})
                   ELSE resolved
         IN IF r1.raised THEN r1
            ELSE LET full == IF name # "default" /\ sparse.arch = {}
                             THEN r1.map["default"]
                             ELSE IF sparse.arch = {} THEN [arch |-> {0}] ELSE sparse
                 IN [r1 EXCEPT !.map = put(r1.map, name, full)]

\* merge_configs(config_fragment, conf_base=file): the keys of the fragment
\* laid over the file, profile by profile and key by key
merge_configs(frag, file) ==
    LET other == IF frag.other = {} THEN file.other ELSE CHOOSE v \in frag.other : TRUE
    IN IF frag.profiles = {} THEN [file EXCEPT !.other = other]
       ELSE LET p == CHOOSE x \in frag.profiles : TRUE
                merged(n) ==
                    IF n \notin DOMAIN p.profs THEN file.profs[n]
                    ELSE IF n \in DOMAIN file.profs /\ p.profs[n].arch = {}
                    THEN file.profs[n]
                    ELSE p.profs[n]
            IN [other |-> other,
                current |-> IF p.current = {} THEN file.current ELSE p.current,
                profs |-> [n \in DOMAIN file.profs \cup DOMAIN p.profs |-> merged(n)]]

\* the profiles section of the file as a dict
profiles_dict(file) == [current |-> file.current, profs |-> file.profs]

\* ConfigStateHolder.update(config_fragment)
update(file, cache, frag) ==
    LET merged == merge_configs(frag, file)
        changed == file # merged
    IN [file |-> merged,
        cache |-> IF changed /\ frag.profiles # {}
                     /\ {profiles_dict(merged)} # frag.profiles
                  THEN [none |-> TRUE, map |-> EmptyCache] ELSE cache]

\* ConfigStateHolder.update_profile(name, profile, merge, create) with prune
\* at its default
update_profile(file, cache, name, profile, merge, create) ==
    IF name \notin DOMAIN file.profs /\ ~create
    THEN [file |-> file, cache |-> cache, raised |-> TRUE]
    ELSE LET old == IF name \in DOMAIN file.profs /\ merge THEN file.profs[name]
                    ELSE [arch |-> {}]
             new == IF profile.arch = {} THEN old ELSE profile
         IN [file |-> [file EXCEPT !.profs = put(@, name, new)],
             cache |-> [none |-> TRUE, map |-> EmptyCache], raised |-> FALSE]

\* ConfigStateHolder.get_profile(name): name {} stands for None
get_profile(file, cache, name) ==
    IF name = {} /\ file.current = {}
    THEN [cache |-> cache, name |-> "", result |-> {}, raised |-> TRUE]
    ELSE LET n == CHOOSE x \in (IF name = {} THEN file.current ELSE name) : TRUE
             r == resolve_profile(n, file.profs,
                                  [map |-> IF cache.none THEN EmptyCache ELSE cache.map,
                                   raised |-> FALSE], {})
         IN IF r.raised
            THEN [cache |-> cache, name |-> n, result |-> {}, raised |-> TRUE]
            ELSE [cache |-> [none |-> FALSE, map |-> r.map], name |-> n,
                  result |-> {r.map[n]}, raised |-> FALSE]

GetProfile ==
    \E name \in {{}} \cup {{n} : n \in ProfileNames} :
        LET r == get_profile(prof_file, prof_cache, name)
        IN /\ prof_cache' = r.cache
           /\ prof_call' = [op |-> "get_profile", name |-> r.name, result |-> r.result,
                            raised |-> r.raised]
           /\ UNCHANGED prof_file
           /\ UNCHANGED nonProfileVars

Update ==
    \E frag \in ConfigFragments :
        LET r == update(prof_file, prof_cache, frag)
        IN /\ prof_file' = r.file
           /\ prof_cache' = r.cache
           /\ prof_call' = [NoProfCall EXCEPT !.op = "update"]
           /\ UNCHANGED nonProfileVars

UpdateProfile ==
    \E name \in ProfileNames, profile \in SparseProfiles, merge \in BOOLEAN,
       create \in BOOLEAN :
        LET r == update_profile(prof_file, prof_cache, name, profile, merge, create)
        IN /\ prof_file' = r.file
           /\ prof_cache' = r.cache
           /\ prof_call' = [NoProfCall EXCEPT !.op = "update_profile", !.name = name,
                                              !.raised = r.raised]
           /\ UNCHANGED nonProfileVars

\* try_load_file: the cache is dropped, and the file, when it parses, replaces
\* config.file; a parsed file is laid over the defaults
ProfTryLoadFile ==
    \E ok \in BOOLEAN, frag \in ConfigFragments :
        /\ prof_cache' = [none |-> TRUE, map |-> EmptyCache]
        /\ prof_file' = IF ok THEN merge_configs(frag, ProfileDefaults) ELSE prof_file
        /\ prof_call' = [NoProfCall EXCEPT !.op = "try_load_file"]
        /\ UNCHANGED nonProfileVars

InitProfile ==
    /\ ProfileIdle
    /\ SolverIdle
    /\ VersionIdle
    /\ DependantsIdle
    /\ ConfigIdle
    /\ FileIdle
    /\ ExecIdle
    /\ ConfIdle
    /\ DiscoverIdle
    /\ QemuIdle
    /\ BuildIdle
    /\ RouterIdle
    /\ depends = [r \in 1..NRecipes |-> {}]
    /\ provides = [r \in Recipes |-> {}]
    /\ replaces = [r \in Recipes |-> {}]
    /\ to_build = {}
    /\ ChrootIdle
    /\ SrcinfoIdle
    /\ FreshIdle

NextProfile == GetProfile \/ Update \/ UpdateProfile \/ ProfTryLoadFile

SpecProfile == InitProfile /\ [][NextProfile]_vars

\* C40: get_profile(name) returns the profile resolved from the profiles the
\* file holds at the call.
C40_ProfileResolvedFromCurrentFile ==
    [][(prof_call'.op = "get_profile" /\ ~prof_call'.raised)
       => LET r == resolve_profile_fresh(prof_call'.name, prof_file.profs,
                                         [map |-> EmptyCache, raised |-> FALSE], {})
          IN ~r.raised /\ prof_call'.result = {r.map[prof_call'.name]}]_vars

====
